---- MODULE Spec2Model ----
(***************************************************************************)
(* Send queue, dispatcher, sticky mailbox assignment and mailbox pool of   *)
(* the email service (email_service/tasks.py, utils.py, models.py,         *)
(* views.py).  Database rows are the shared state; every dispatcher        *)
(* worker keeps the in-memory model instances it read, and writes them     *)
(* back whole with save(), as the ORM does.                                *)
(***************************************************************************)
EXTENDS Integers, Sequences, FiniteSets, TLC

\* ---------------------------------------------------------------- bounds
NumJobs == 2            \* queue rows that are ever enqueued
NumLeads == 2
NumTenants == 1
NumMailboxes == 2
NumWorkers == 2         \* dispatcher cycles that may overlap
MaxTime == 2            \* clock ticks, one tick = the retry delay (5 minutes)
MaxDay == 1             \* midnights that pass
SendLimit == 1          \* daily_send_limit of a mailbox (400 by default)
TenantLimit == 1        \* gmail_daily_limit of a clients row
MaxAssignments == 3     \* assignment rows created by direct callers
MaxEmailCount == 3      \* email_count reached by direct callers
NumPixels == 1          \* tracking pixels that are ever created
NumClicks == 1          \* tracked links that are ever created
NumHandlers == 2        \* tracking requests served at the same time
MaxOpens == 3           \* record_open calls that succeed, per pixel
MaxClickCalls == 2      \* record_click calls that succeed, per link
MaxLinks == 2           \* <a> tags of an email body
MaxApplications == 2    \* times one body is passed to replace_links_with_tracking
MaxClickRows == 3       \* click rows created by rewriting bodies
MaxMessages == 2        \* messages Gmail adds to one mailbox

\* ------------------------------------------------------ program constants
MaxAttempts == 3        \* EmailSendQueue.max_attempts default
BatchLimit == 100       \* [:100] slice of process_email_queue
RetryDelay == 1         \* timedelta(minutes=5), in clock ticks
NumRuns == 2            \* check_for_replies runs that may overlap
MaxEvents == 4          \* rows of email_events when a run may still abort
SmallBatch == 1         \* the batch size [:100] scaled down
TicksPerDay == 288      \* timedelta(days=1), in clock ticks

Jobs == 1..NumJobs
Leads == 1..NumLeads
Tenants == 1..NumTenants
Mailboxes == 1..NumMailboxes
Workers == 1..NumWorkers
Handlers == 1..NumHandlers
Runs == 1..NumRuns

\* NULL of a nullable column
NULL == 0 - 1

\* GmailToken.client_id of mailbox m (unique_client_email_combo: one owner)
MailboxOwner(m) == ((m - 1) % NumTenants) + 1

VARIABLES
    now,                \* timezone.now()
    today,              \* date.today() / CURRENT_DATE
    email_send_queue,   \* EmailSendQueue rows, by id
    gmail_tokens,       \* GmailToken rows, by email_address
    assignments,        \* LeadMailboxAssignment rows, in creation order
    clients,            \* clients table of the AISDR database, by id
    email_events,       \* EmailEvent rows, in creation order
    pc,                 \* position of each dispatcher worker
    batch,              \* ready_emails still to iterate, per worker
    email,              \* the loop variable `email`, per worker
    gmail_token,        \* the local `gmail_token`, per worker
    email_tracking_pixels,  \* EmailTrackingPixel rows, by pixel_id
    email_click_tracking,   \* EmailClickTracking rows, by click_id
    leads,              \* leads table of the AISDR database, by id
    hpc,                \* position of each tracking request
    hreq,               \* locals of each tracking request (row read, now)
    result,             \* what record_open / record_click last returned, per handler
    response,           \* the HTTP response last returned, per handler
    opens,              \* record_open calls that returned True, per pixel
    clickcalls,         \* record_click calls that returned success, per link
    html,               \* the hrefs of the <a> tags of an email body, in order
    applied,            \* times replace_links_with_tracking rewrote this body
    api_response,       \* the response views.send_email last returned
    crashed,            \* jobs claimed by a dispatcher process that then died
    history,            \* Gmail: the messages added to each mailbox, in order
    last_history_id,    \* GmailToken.last_history_id, per mailbox
    utcnow,             \* datetime.utcnow(), in days
    jwt_call,           \* arguments and time of the last generate_client_jwt call
    jwt_token,          \* the token last presented to verify_client_jwt
    jwt_forged,         \* whether that token is other than what generate returned
    jwt_result,         \* what verify_client_jwt last returned, and when
    manual,             \* the local `email` of a running send_single_email task
    manual_result,      \* what send_single_email last returned
    selected,           \* the row check_client_daily_limit fetched, per worker
    run,                \* locals of each check_for_replies run
    delivered,          \* transport: messages it has accepted, per job
    invoked,            \* transport: calls of send_email, per job
    returned,           \* identities get_or_assign has returned, per (lead, tenant)
    deactivated         \* mailboxes whose status has ever been non-active

vars == <<now, today, email_send_queue, gmail_tokens, assignments, clients,
          email_events, pc, batch, email, gmail_token,
          email_tracking_pixels, email_click_tracking, leads, hpc, hreq,
          result, response, opens, clickcalls, html, applied, api_response, crashed,
          history, last_history_id,
          utcnow, jwt_call, jwt_token, jwt_forged, jwt_result,
          manual, manual_result, selected, run,
          delivered, invoked, returned, deactivated>>

dbvars == <<email_send_queue, gmail_tokens, assignments, clients, email_events>>
localvars == <<pc, batch, email, gmail_token>>
transportvars == <<delivered, invoked>>
clockvars == <<now, today>>
histvars == <<returned, deactivated>>
linkvars == <<html, applied>>
apivars == <<api_response>>
crashvars == <<crashed>>
replyvars == <<history, last_history_id>>
jwtvars == <<utcnow, jwt_call, jwt_token, jwt_forged, jwt_result>>
manualvars == <<manual, manual_result>>
limitvars == <<selected>>
runvars == <<run>>
othervars == <<jwtvars, manualvars, limitvars, runvars>>
trackingvars == <<email_tracking_pixels, email_click_tracking, leads, hpc, hreq,
                  result, response, opens, clickcalls, linkvars, apivars, crashvars,
                  replyvars, othervars>>
handlervars == <<email_tracking_pixels, email_click_tracking, leads, hpc, hreq,
                 result, response, opens, clickcalls, linkvars, apivars, crashvars,
                 replyvars>>
corevars == <<clockvars, dbvars, localvars, transportvars, returned, deactivated,
              handlervars>>

Rows == DOMAIN email_send_queue

NoEmail == [id |-> 0]

\* a tracking request that holds nothing; a handler that has returned nothing
NoRequest == [id |-> 0]
NoResult == [kind |-> "none"]

Min(a, b) == IF a < b THEN a ELSE b

\* ------------------------------------------------------------ clients table

\* a client_id that has no row in the clients table
UnknownTenant == 0

\* SELECT ... FROM clients WHERE id = %s finds a row
HasRow(t) == t \in DOMAIN clients /\ clients[t].exists

\* a comparison that lets the tenant send one more at the limit
CheckClientDailyLimitInclusive(t) ==
    IF ~HasRow(t) THEN FALSE
    ELSE IF clients[t].last_reset_date < today THEN TRUE
    ELSE clients[t].emails_sent_today <= clients[t].gmail_daily_limit

\* check_client_daily_limit: the value it returns
CheckClientDailyLimit(t) ==
    IF ~HasRow(t) THEN FALSE
    ELSE IF clients[t].last_reset_date < today THEN TRUE
    ELSE clients[t].emails_sent_today < clients[t].gmail_daily_limit

\* check_client_daily_limit: the clients table it leaves (lazy reset)
ClientsAfterCheck(t) ==
    IF HasRow(t) /\ clients[t].last_reset_date < today
    THEN [clients EXCEPT ![t].emails_sent_today = 0, ![t].last_reset_date = today]
    ELSE clients

\* increment_client_daily_counter
IncrementClientDailyCounter(t) ==
    IF HasRow(t)
    THEN [clients EXCEPT ![t].emails_sent_today = @ + 1]
    ELSE clients

\* -------------------------------------------------------------- mailbox pool

ActiveTokens(t) ==
    {m \in Mailboxes : MailboxOwner(m) = t /\ gmail_tokens[m].status = "active"}

\* order_by('last_used_at').first(): the rows that can come first.  NULL sorts
\* first or last depending on the database backend; ties are in any order.
NextMailboxTokens(t) ==
    LET act == ActiveTokens(t)
        used == {m \in act : gmail_tokens[m].last_used_at # NULL}
        never == act \ used
        oldest == {m \in used : \A o \in used :
                     gmail_tokens[m].last_used_at <= gmail_tokens[o].last_used_at}
    IN  IF never = {} THEN oldest
        ELSE IF used = {} THEN never
        ELSE never \cup oldest

\* get_mailbox_with_capacity: the rows that can come first (empty: ValueError)
MailboxWithCapacity(t) ==
    LET remaining(m) == gmail_tokens[m].daily_send_limit - gmail_tokens[m].daily_send_count
        cap == {m \in ActiveTokens(t) : remaining(m) > 0}
        most == {m \in cap : \A o \in cap : remaining(m) >= remaining(o)}
        used == {m \in most : gmail_tokens[m].last_used_at # NULL}
        never == most \ used
        oldest == {m \in used : \A o \in used :
                     gmail_tokens[m].last_used_at <= gmail_tokens[o].last_used_at}
    IN  IF never = {} THEN oldest
        ELSE IF used = {} THEN never
        ELSE never \cup oldest

\* --------------------------------------------------------- sticky assignment

\* LeadMailboxAssignment.objects.get(lead_id, client_id, status='active')
ActiveAssignments(l, t) ==
    {i \in DOMAIN assignments :
        /\ assignments[i].lead_id = l
        /\ assignments[i].client_id = t
        /\ assignments[i].status = "active"}

\* a lookup that forgets the email_address filter
LookupTokenAny(address, t) == ActiveTokens(t)

\* GmailToken.objects.get(email_address, client_id, status='active')
LookupToken(address, t) ==
    {m \in ActiveTokens(t) : m = address}

\* unique_together = [['lead_id', 'client_id']]: create() raises IntegrityError
UniqueViolation(l, t) ==
    \E i \in DOMAIN assignments :
        assignments[i].lead_id = l /\ assignments[i].client_id = t

\* ------------------------------------------------------------------- queue

\* filter(status='PENDING', scheduled_for__lte=now)
DueJobs ==
    {j \in Rows : /\ email_send_queue[j].status = "PENDING"
                  /\ email_send_queue[j].scheduled_for <= now}

\* .order_by('scheduled_for')[:limit], ties in any order
ReadyEmailsUpTo(limit) ==
    LET n == Cardinality(DueJobs)
        orders == {s \in [1..n -> DueJobs] :
                     /\ \A a, b \in 1..n : a # b => s[a] # s[b]
                     /\ \A a, b \in 1..n : a < b =>
                          email_send_queue[s[a]].scheduled_for
                            <= email_send_queue[s[b]].scheduled_for}
    IN  {[i \in 1..Min(n, limit) |->
            [id |-> s[i], row |-> email_send_queue[s[i]]]] : s \in orders}

\* .order_by('scheduled_for')[:100]
ReadyEmails == ReadyEmailsUpTo(BatchLimit)

\* where the loop goes after an iteration
AfterIteration(rest) == IF rest = <<>> THEN "idle" ELSE "loop"

\* ------------------------------------------------------------------- Init

\* Mailboxes are connected and active and have sent nothing; the queue is empty;
\* every tenant has a clients row.
\* the state after construction, every mailbox having status st
InitPool(st) ==
    /\ now = 0
    /\ today = 0
    /\ email_send_queue = <<>>
    /\ gmail_tokens = [m \in Mailboxes |->
            [status |-> st, daily_send_count |-> 0,
             daily_send_limit |-> SendLimit, last_used_at |-> NULL]]
    /\ assignments = <<>>
    /\ clients = [t \in Tenants |-> [exists |-> TRUE,
                                     gmail_daily_limit |-> TenantLimit,
                                     emails_sent_today |-> 0,
                                     last_reset_date |-> 0]]
    /\ email_events = <<>>
    /\ pc = [w \in Workers |-> "idle"]
    /\ batch = [w \in Workers |-> <<>>]
    /\ email = [w \in Workers |-> NoEmail]
    /\ gmail_token = [w \in Workers |-> NULL]
    /\ delivered = [j \in Jobs |-> 0]
    /\ invoked = [j \in Jobs |-> 0]
    /\ returned = [k \in Leads \X Tenants |-> {}]
    /\ deactivated = IF st = "active" THEN {} ELSE Mailboxes
    /\ email_tracking_pixels = <<>>
    /\ email_click_tracking = <<>>
    /\ leads = [l \in Leads |-> [emails_opened |-> 0, emails_clicked |-> 0,
                                  emails_replied |-> 0, sequence_status |-> "ACTIVE"]]
    /\ hpc = [h \in Handlers |-> "idle"]
    /\ hreq = [h \in Handlers |-> NoRequest]
    /\ result = [h \in Handlers |-> NoResult]
    /\ response = [h \in Handlers |-> NoResult]
    /\ opens = [p \in 1..NumPixels |-> 0]
    /\ clickcalls = [c \in 1..NumClicks |-> 0]
    /\ html = <<>>
    /\ applied = 0
    /\ api_response = NoResult
    /\ crashed = {}
    /\ history = [m \in Mailboxes |-> <<>>]
    /\ last_history_id = [m \in Mailboxes |-> NULL]
    /\ utcnow = 0
    /\ jwt_call = NoResult
    /\ jwt_token = [segments |-> 1]
    /\ jwt_forged = TRUE
    /\ jwt_result = NoResult
    /\ manual = NoEmail
    /\ manual_result = NoResult
    /\ selected = [w \in Workers |-> NoResult]
    /\ run = [r \in Runs |-> NoResult]

\* every mailbox connected; nothing queued, assigned or tracked yet
Init == InitPool("active")

\* every mailbox of the tenant has lost its authorization
InitOutage == InitPool("revoked")

\* ------------------------------------------------------------ environment

\* the clock advances
Tick ==
    /\ now < MaxTime
    /\ now' = now + 1
    /\ UNCHANGED <<today, trackingvars, dbvars, localvars, transportvars, histvars, othervars>>

\* midnight passes
NewDay ==
    /\ today < MaxDay
    /\ today' = today + 1
    /\ UNCHANGED <<now, trackingvars, dbvars, localvars, transportvars, histvars, othervars>>

\* views.send_email: EmailSendQueue.objects.create(..., status='PENDING')
Enqueue(l, t, delay) ==
    LET j == Cardinality(Rows) + 1 IN
    /\ j \in Jobs
    /\ \A k \in Leads : k < l => \E i \in Rows : email_send_queue[i].lead_id = k
    /\ email_send_queue' = email_send_queue @@
         (j :> [lead_id |-> l, client_id |-> t, status |-> "PENDING",
                attempts |-> 0, max_attempts |-> MaxAttempts,
                scheduled_for |-> now + delay, last_error |-> "",
                failed_at |-> NULL, sent_at |-> NULL, sent_from_email |-> NULL])
    /\ UNCHANGED <<clockvars, trackingvars, gmail_tokens, assignments, clients, email_events,
                   localvars, transportvars, histvars, othervars>>

\* tasks.send_single_email: a PENDING job is made due now (the cycle it then
\* triggers is a Dispatch of some worker)
SendSingleEmail(j) ==
    /\ j \in Rows
    /\ email_send_queue[j].status = "PENDING"
    /\ email_send_queue[j].scheduled_for # now
    /\ email_send_queue' = [email_send_queue EXCEPT ![j].scheduled_for = now]
    /\ UNCHANGED <<clockvars, trackingvars, gmail_tokens, assignments, clients, email_events,
                   localvars, transportvars, histvars, othervars>>

\* tasks.send_single_email, lines 236-240: EmailSendQueue.objects.get and the
\* status check; the task returns an error or goes on with the row it read
SendSingleEmailGet(j) ==
    /\ manual = NoEmail
    /\ IF j \notin Rows
       THEN /\ manual_result' = [kind |-> "error", error |-> "Email not found"]
            /\ UNCHANGED manual
       ELSE IF email_send_queue[j].status # "PENDING"
       THEN /\ manual_result' = [kind |-> "error", error |-> "not PENDING"]
            /\ UNCHANGED manual
       ELSE /\ manual' = [id |-> j, row |-> email_send_queue[j]]
            /\ manual_result' = NoResult
    /\ UNCHANGED <<clockvars, dbvars, localvars, transportvars, returned, deactivated,
                   handlervars, jwtvars, limitvars, runvars>>

\* tasks.send_single_email, lines 243-249: email.scheduled_for = now;
\* email.save() writes every column of the row that was read; the cycle that
\* process_email_queue.delay() starts is a Dispatch
SendSingleEmailSave ==
    /\ manual # NoEmail
    /\ email_send_queue' = [email_send_queue EXCEPT
                               ![manual.id] = [manual.row EXCEPT !.scheduled_for = now]]
    /\ manual' = NoEmail
    /\ manual_result' = [kind |-> "success", email_id |-> manual.id]
    /\ UNCHANGED <<clockvars, gmail_tokens, assignments, clients, email_events,
                   localvars, transportvars, returned, deactivated, handlervars,
                   jwtvars, limitvars, runvars>>

\* external cancellation: UPDATE ... SET status='CANCELLED' WHERE status='PENDING'
Cancel(j) ==
    /\ j \in Rows
    /\ email_send_queue[j].status = "PENDING"
    /\ email_send_queue' = [email_send_queue EXCEPT ![j].status = "CANCELLED"]
    /\ UNCHANGED <<clockvars, trackingvars, gmail_tokens, assignments, clients, email_events,
                   localvars, transportvars, histvars, othervars>>

\* a mailbox's authorization expires or is revoked, or the mailbox is reconnected
SetTokenStatus(m, st) ==
    /\ gmail_tokens[m].status # st
    /\ gmail_tokens' = [gmail_tokens EXCEPT ![m].status = st]
    /\ deactivated' = IF st = "active" THEN deactivated ELSE deactivated \cup {m}
    /\ UNCHANGED <<clockvars, trackingvars, email_send_queue, assignments, clients, email_events,
                   localvars, transportvars, returned>>

\* the admin form of GmailToken saves a daily_send_count
SetDailySendCount(m, c) ==
    /\ gmail_tokens[m].daily_send_count # c
    /\ gmail_tokens' = [gmail_tokens EXCEPT ![m].daily_send_count = c]
    /\ UNCHANGED <<clockvars, trackingvars, email_send_queue, assignments, clients, email_events,
                   localvars, transportvars, histvars, othervars>>

\* utils.reset_daily_send_counts
ResetDailySendCounts ==
    /\ \E m \in Mailboxes :
         gmail_tokens[m].status = "active" /\ gmail_tokens[m].daily_send_count # 0
    /\ gmail_tokens' = [m \in Mailboxes |->
         IF gmail_tokens[m].status = "active"
         THEN [gmail_tokens[m] EXCEPT !.daily_send_count = 0]
         ELSE gmail_tokens[m]]
    /\ UNCHANGED <<clockvars, trackingvars, email_send_queue, assignments, clients, email_events,
                   localvars, transportvars, histvars, othervars>>

\* tasks.reset_daily_limits, the task celery beat runs at midnight UTC
\* ('reset-daily-limits-at-midnight'): UPDATE clients ... WHERE
\* last_reset_date < CURRENT_DATE
ResetDailyLimits ==
    /\ clients' = [t \in Tenants |->
         IF clients[t].exists /\ clients[t].last_reset_date < today
         THEN [clients[t] EXCEPT !.emails_sent_today = 0, !.last_reset_date = today]
         ELSE clients[t]]
    /\ UNCHANGED <<clockvars, trackingvars, email_send_queue, gmail_tokens, assignments,
                   email_events, localvars, transportvars, histvars, othervars>>

\* ------------------------------------------------- process_email_queue

\* the queryset is evaluated when the for loop starts
Fetch(w) ==
    /\ pc[w] = "idle"
    /\ DueJobs # {}
    /\ \E b \in ReadyEmails : batch' = [batch EXCEPT ![w] = b]
    /\ pc' = [pc EXCEPT ![w] = "loop"]
    /\ UNCHANGED <<clockvars, trackingvars, dbvars, email, gmail_token, transportvars, histvars, othervars>>

\* the same with the slice [:100] scaled down to [:SmallBatch], so that a
\* backlog of a full batch fits in a small queue
FetchSmallBatch(w) ==
    /\ pc[w] = "idle"
    /\ DueJobs # {}
    /\ \E b \in ReadyEmailsUpTo(SmallBatch) : batch' = [batch EXCEPT ![w] = b]
    /\ pc' = [pc EXCEPT ![w] = "loop"]
    /\ UNCHANGED <<clockvars, trackingvars, dbvars, email, gmail_token, transportvars, histvars, othervars>>

\* next iteration: check_client_daily_limit(email.client_id), continue if False
CheckLimit(w) ==
    /\ pc[w] = "loop"
    /\ LET e == Head(batch[w])
           rest == Tail(batch[w])
           t == e.row.client_id
       IN  /\ clients' = ClientsAfterCheck(t)
           /\ batch' = [batch EXCEPT ![w] = rest]
           /\ IF CheckClientDailyLimit(t)
              THEN /\ email' = [email EXCEPT ![w] = e]
                   /\ pc' = [pc EXCEPT ![w] = "claim"]
              ELSE /\ email' = [email EXCEPT ![w] = NoEmail]
                   /\ pc' = [pc EXCEPT ![w] = AfterIteration(rest)]
    /\ UNCHANGED <<clockvars, trackingvars, email_send_queue, gmail_tokens, assignments,
                   email_events, gmail_token, transportvars, histvars, othervars>>

\* check_client_daily_limit, lines 267-276: the SELECT and fetchone()
CheckLimitSelect(w) ==
    /\ pc[w] = "loop"
    /\ LET t == Head(batch[w]).row.client_id
       IN  selected' = [selected EXCEPT ![w] =
                          IF HasRow(t) THEN [kind |-> "row", row |-> clients[t]]
                          ELSE [kind |-> "no row"]]
    /\ pc' = [pc EXCEPT ![w] = "limit"]
    /\ UNCHANGED <<clockvars, dbvars, batch, email, gmail_token, transportvars,
                   returned, deactivated, handlervars, jwtvars, manualvars, runvars>>

\* check_client_daily_limit, lines 277-296, on the row fetched before: the
\* UPDATE of the lazy reset names the tenant only (WHERE id = %s); then
\* line 38 of the loop
CheckLimitUpdate(w) ==
    /\ pc[w] = "limit"
    /\ LET e == Head(batch[w])
           rest == Tail(batch[w])
           t == e.row.client_id
           sel == selected[w]
           lazy == sel.kind = "row" /\ sel.row.last_reset_date < today
           allowed == /\ sel.kind = "row"
                      /\ \/ sel.row.last_reset_date < today
                         \/ sel.row.emails_sent_today < sel.row.gmail_daily_limit
       IN  /\ clients' = IF lazy
                         THEN [clients EXCEPT ![t].emails_sent_today = 0,
                                              ![t].last_reset_date = today]
                         ELSE clients
           /\ batch' = [batch EXCEPT ![w] = rest]
           /\ IF allowed
              THEN /\ email' = [email EXCEPT ![w] = e]
                   /\ pc' = [pc EXCEPT ![w] = "claim"]
              ELSE /\ email' = [email EXCEPT ![w] = NoEmail]
                   /\ pc' = [pc EXCEPT ![w] = AfterIteration(rest)]
    /\ selected' = [selected EXCEPT ![w] = NoResult]
    /\ UNCHANGED <<clockvars, email_send_queue, gmail_tokens, assignments, email_events,
                   gmail_token, transportvars, returned, deactivated, handlervars,
                   jwtvars, manualvars, runvars>>

\* email.status = 'SENDING'; email.save(): the row the save leaves
ClaimedRow(w) == [email[w].row EXCEPT !.status = "SENDING"]

\* lines 42-44
Claim(w) ==
    /\ pc[w] = "claim"
    /\ email_send_queue' = [email_send_queue EXCEPT ![email[w].id] = ClaimedRow(w)]
    /\ email' = [email EXCEPT ![w].row.status = "SENDING"]
    /\ pc' = [pc EXCEPT ![w] = "assign"]
    /\ UNCHANGED <<clockvars, trackingvars, gmail_tokens, assignments, clients, email_events,
                   batch, gmail_token, transportvars, histvars, othervars>>

\* lines 110-124: the row the exception handler saves
FailedRow(w, e) ==
    LET r == email[w].row
        n == r.attempts + 1
    IN  IF n >= r.max_attempts
        THEN [r EXCEPT !.attempts = n, !.last_error = e,
                       !.status = "FAILED", !.failed_at = now]
        ELSE [r EXCEPT !.attempts = n, !.last_error = e,
                       !.status = "PENDING", !.scheduled_for = now + RetryDelay]

\* an exception e leaves the try block: except Exception as e: ... email.save(),
\* and the loop goes on.  (A direct caller of get_or_assign has no queue row.)
Raise(w, e) ==
    /\ email_send_queue' =
         IF email[w].id \in Rows
         THEN [email_send_queue EXCEPT ![email[w].id] = FailedRow(w, e)]
         ELSE email_send_queue
    /\ email' = [email EXCEPT ![w] = NoEmail]
    /\ gmail_token' = [gmail_token EXCEPT ![w] = NULL]
    /\ pc' = [pc EXCEPT ![w] = AfterIteration(batch[w])]

\* get_or_assign_mailbox_for_lead, lines 258-291: the lookup of the assignment
LookupAssignment(w) ==
    /\ pc[w] = "assign"
    /\ LET l == email[w].row.lead_id
           t == email[w].row.client_id
           act == ActiveAssignments(l, t)
       IN  IF act = {}
           THEN /\ pc' = [pc EXCEPT ![w] = "next_token"]
                /\ UNCHANGED <<email_send_queue, email, assignments, gmail_token, returned>>
           ELSE IF Cardinality(act) > 1
           THEN /\ Raise(w, "MultipleObjectsReturned")
                /\ UNCHANGED <<assignments, returned>>
           ELSE LET i == CHOOSE x \in act : TRUE
                    found == LookupToken(assignments[i].assigned_email, t)
                IN  IF found = {}
                    THEN /\ assignments' = [assignments EXCEPT ![i].status = "inactive"]
                         /\ pc' = [pc EXCEPT ![w] = "next_token"]
                         /\ UNCHANGED <<email_send_queue, email, gmail_token, returned>>
                    ELSE \E m \in found :
                         /\ assignments' = [assignments EXCEPT ![i].email_count = @ + 1]
                         /\ gmail_token' = [gmail_token EXCEPT ![w] = m]
                         /\ returned' = [returned EXCEPT ![<<l, t>>] = @ \cup {m}]
                         /\ pc' = [pc EXCEPT ![w] = "send"]
                         /\ UNCHANGED <<email_send_queue, email>>
    /\ UNCHANGED <<clockvars, trackingvars, gmail_tokens, clients, email_events,
                   batch, transportvars, deactivated>>

\* get_or_assign_mailbox_for_lead, lines 293-309: get_next_mailbox_token, then
\* LeadMailboxAssignment.objects.create
AssignNewMailbox(w) ==
    /\ pc[w] = "next_token"
    /\ LET l == email[w].row.lead_id
           t == email[w].row.client_id
       IN  IF ActiveTokens(t) = {}
           THEN /\ Raise(w, "No active Gmail tokens")
                /\ UNCHANGED <<gmail_tokens, assignments, returned>>
           ELSE \E m \in NextMailboxTokens(t) :
                /\ gmail_tokens' = [gmail_tokens EXCEPT ![m].last_used_at = now]
                /\ IF UniqueViolation(l, t)
                   THEN /\ Raise(w, "IntegrityError")
                        /\ UNCHANGED <<assignments, returned>>
                   ELSE /\ assignments' = Append(assignments,
                             [lead_id |-> l, client_id |-> t, assigned_email |-> m,
                              email_count |-> 1, status |-> "active"])
                        /\ gmail_token' = [gmail_token EXCEPT ![w] = m]
                        /\ returned' = [returned EXCEPT ![<<l, t>>] = @ \cup {m}]
                        /\ pc' = [pc EXCEPT ![w] = "send"]
                        /\ UNCHANGED <<email_send_queue, email>>
    /\ UNCHANGED <<clockvars, trackingvars, clients, email_events, batch, transportvars, deactivated>>

\* a save that forgets sent_from_email
SentRowNoSender(w) ==
    [email[w].row EXCEPT !.status = "SENT", !.sent_at = now]

\* lines 81-85: the row the save after a successful send leaves
SentRow(w) ==
    [email[w].row EXCEPT !.status = "SENT", !.sent_at = now,
                         !.sent_from_email = gmail_token[w]]

\* result['message_id']: the transport names the message it accepted; here by
\* the job and the number of messages accepted for it
MessageId(w) == <<email[w].id, delivered[email[w].id] + 1>>

\* lines 88-96: EmailEvent.objects.create(event_type='SENT', ...)
EventsAfterSend(w) ==
    Append(email_events, [event_type |-> "SENT",
                          lead_id |-> email[w].row.lead_id,
                          client_id |-> email[w].row.client_id,
                          message_id |-> MessageId(w),
                          thread_id |-> MessageId(w)])

\* lines 54-108: the transport accepts the message; save the row, create the
\* SENT event, increment the tenant's counter
SendSucceeds(w) ==
    /\ pc[w] = "send"
    /\ delivered' = [delivered EXCEPT ![email[w].id] = @ + 1]
    /\ invoked' = [invoked EXCEPT ![email[w].id] = @ + 1]
    /\ email_send_queue' = [email_send_queue EXCEPT ![email[w].id] = SentRow(w)]
    /\ email_events' = EventsAfterSend(w)
    /\ clients' = IncrementClientDailyCounter(email[w].row.client_id)
    /\ email' = [email EXCEPT ![w] = NoEmail]
    /\ gmail_token' = [gmail_token EXCEPT ![w] = NULL]
    /\ pc' = [pc EXCEPT ![w] = AfterIteration(batch[w])]
    /\ UNCHANGED <<clockvars, trackingvars, gmail_tokens, assignments, batch, histvars, othervars>>

\* lines 110-124 after lines 81-84 have set status, message_id, sent_at and
\* sent_from_email on the in-memory row: the row the exception handler saves
FailedRowAfterSend(w, e) ==
    LET r == SentRow(w)
        n == r.attempts + 1
    IN  IF n >= r.max_attempts
        THEN [r EXCEPT !.attempts = n, !.last_error = e,
                       !.status = "FAILED", !.failed_at = now]
        ELSE [r EXCEPT !.attempts = n, !.last_error = e,
                       !.status = "PENDING", !.scheduled_for = now + RetryDelay]

\* lines 54-125: the transport accepts the message and the row is saved as
\* SENT (line 85); then a bookkeeping step raises: EmailEvent.objects.create
\* (stage "event"), update_lead_sent_metrics (stage "metrics") or
\* increment_client_daily_counter (stage "counter"); the handler of line 110
\* saves the row again
BookkeepingFails(w, stage) ==
    /\ pc[w] = "send"
    /\ delivered' = [delivered EXCEPT ![email[w].id] = @ + 1]
    /\ invoked' = [invoked EXCEPT ![email[w].id] = @ + 1]
    /\ email_events' = IF stage = "event" THEN email_events ELSE EventsAfterSend(w)
    /\ email_send_queue' = [email_send_queue EXCEPT
                               ![email[w].id] = FailedRowAfterSend(w, stage)]
    /\ email' = [email EXCEPT ![w] = NoEmail]
    /\ gmail_token' = [gmail_token EXCEPT ![w] = NULL]
    /\ pc' = [pc EXCEPT ![w] = AfterIteration(batch[w])]
    /\ UNCHANGED <<clockvars, trackingvars, gmail_tokens, assignments, clients, batch,
                   histvars, othervars>>

\* lines 54-78 and 107-125: the transport returns success False
SendFails(w) ==
    /\ pc[w] = "send"
    /\ invoked' = [invoked EXCEPT ![email[w].id] = @ + 1]
    /\ Raise(w, "transport error")
    /\ UNCHANGED <<clockvars, trackingvars, gmail_tokens, assignments, clients, email_events,
                   batch, delivered, histvars, othervars>>

\* lines 54-78 and 107-125 with gmail_client.send_email, lines 132-144: Gmail
\* rejects the credentials for good (authorization revoked); the client
\* returns success False with the error text
SendRejected(w) ==
    /\ pc[w] = "send"
    /\ invoked' = [invoked EXCEPT ![email[w].id] = @ + 1]
    /\ Raise(w, "invalid_grant")
    /\ UNCHANGED <<clockvars, trackingvars, gmail_tokens, assignments, clients, email_events,
                   batch, delivered, histvars, othervars>>

\* the process running the cycle of worker w dies after line 44 has saved
\* SENDING and before the job's result is saved; when it dies inside the
\* transport call the message may have gone out already (reached)
Crash(w, reached) ==
    LET j == email[w].id IN
    /\ pc[w] \in {"assign", "next_token", "send"}
    /\ j \in Rows
    /\ reached => pc[w] = "send"
    /\ invoked' = IF reached THEN [invoked EXCEPT ![j] = @ + 1] ELSE invoked
    /\ delivered' = IF reached THEN [delivered EXCEPT ![j] = @ + 1] ELSE delivered
    /\ crashed' = crashed \cup {j}
    /\ pc' = [pc EXCEPT ![w] = "idle"]
    /\ batch' = [batch EXCEPT ![w] = <<>>]
    /\ email' = [email EXCEPT ![w] = NoEmail]
    /\ gmail_token' = [gmail_token EXCEPT ![w] = NULL]
    /\ UNCHANGED <<clockvars, dbvars, histvars, othervars, linkvars, apivars, replyvars,
                   email_tracking_pixels, email_click_tracking, leads, hpc, hreq,
                   result, response, opens, clickcalls>>

\* one step of the dispatcher cycle run by worker w
Dispatch(w) ==
    \/ Fetch(w)
    \/ CheckLimit(w)
    \/ Claim(w)
    \/ LookupAssignment(w)
    \/ AssignNewMailbox(w)
    \/ SendSucceeds(w)
    \/ SendFails(w)

\* the lead whose jobs overlapping cycles compete for
HotLead == CHOOSE l \in Leads : TRUE

\* producers that enqueue for the leads ls, for immediate sending
Producers(ls) == \E l \in ls, t \in Tenants : Enqueue(l, t, 0)

\* changes to the mailbox pool from outside the dispatcher
PoolEnvironment ==
    \/ \E m \in Mailboxes : SetTokenStatus(m, "revoked")
    \/ \E m \in Mailboxes : SetDailySendCount(m, SendLimit)
    \/ ResetDailySendCounts

Next ==
    \/ Tick
    \/ Producers({HotLead})
    \/ \E w \in Workers : Dispatch(w)

\* dispatcher cycles of several workers overlap (celery beat starts a cycle
\* every 60 s, send_single_email starts more) on the jobs of one lead; the
\* mailbox pool is left alone and no midnight passes
Spec == Init /\ [][Next]_vars

\* the steps of a cycle that run while the tenant has no active mailbox
NextOutage ==
    \/ Tick
    \/ Producers({HotLead})
    \/ \E w \in Workers :
         \/ Fetch(w)
         \/ CheckLimit(w)
         \/ Claim(w)
         \/ LookupAssignment(w)
         \/ AssignNewMailbox(w)

\* overlapping dispatcher cycles for a tenant none of whose mailboxes is active
SpecOutage == InitOutage /\ [][NextOutage]_vars

\* the worker that runs every cycle when cycles do not overlap
Scheduler == CHOOSE w \in Workers : TRUE

NextMidnight ==
    \/ Tick
    \/ NewDay
    \/ ResetDailyLimits
    \/ \E m \in Mailboxes, st \in {"active", "expired", "revoked"} : SetTokenStatus(m, st)
    \/ \E m \in Mailboxes, c \in 0..SendLimit : SetDailySendCount(m, c)

\* days pass and the scheduled reset runs, for mailboxes of any status and
\* any daily_send_count
SpecMidnight == Init /\ [][NextMidnight]_vars

NextCrash ==
    \/ Producers({HotLead})
    \/ \E w \in Workers : Dispatch(w)
    \/ \E w \in Workers, reached \in BOOLEAN : Crash(w, reached)

\* overlapping dispatcher cycles whose processes may die in the middle of a
\* job, all within one retry delay (no retry becomes due)
SpecCrash == Init /\ [][NextCrash]_vars

NextRevoked ==
    \/ Tick
    \/ Producers({HotLead})
    \/ Dispatch(Scheduler)
    \/ SendRejected(Scheduler)

\* cycles that run one after another while Gmail may reject a mailbox's
\* credentials for good
SpecRevoked == Init /\ [][NextRevoked]_vars

\* a cycle of worker w whose batch is cut at SmallBatch
CycleSmallBatch(w) ==
    \/ FetchSmallBatch(w)
    \/ CheckLimit(w)
    \/ Claim(w)
    \/ LookupAssignment(w)
    \/ AssignNewMailbox(w)
    \/ SendSucceeds(w)
    \/ SendFails(w)

NextBacklog ==
    \/ Tick
    \/ Enqueue(HotLead, UnknownTenant, 0)
    \/ \E t \in Tenants : Enqueue(HotLead, t, 0)
    \/ CycleSmallBatch(Scheduler)

\* jobs of a tenant without a clients row and jobs of a tenant with one are
\* queued; celery beat starts a cycle every minute, so a cycle that can take
\* a step eventually does
SpecBacklog == Init /\ [][NextBacklog]_vars /\ WF_vars(CycleSmallBatch(Scheduler))

NextManualRace ==
    \/ Tick
    \/ Producers({HotLead})
    \/ \E j \in Jobs : SendSingleEmailGet(j)
    \/ SendSingleEmailSave
    \/ Fetch(Scheduler)
    \/ CheckLimit(Scheduler)
    \/ Claim(Scheduler)
    \/ LookupAssignment(Scheduler)
    \/ AssignNewMailbox(Scheduler)
    \/ SendSucceeds(Scheduler)

\* a send_single_email task runs beside the dispatcher cycle of one worker;
\* the transport accepts every message
SpecManualRace == Init /\ [][NextManualRace]_vars

NextLazyReset ==
    \/ NewDay
    \/ ResetDailyLimits
    \/ Producers({HotLead})
    \/ \E w \in Workers :
         \/ Fetch(w)
         \/ CheckLimitSelect(w)
         \/ CheckLimitUpdate(w)
         \/ Claim(w)
         \/ LookupAssignment(w)
         \/ AssignNewMailbox(w)
         \/ SendSucceeds(w)

\* cycles of several workers check the tenant's limit around midnight, the
\* SELECT and the UPDATE of check_client_daily_limit being separate
\* statements; the scheduled reset runs at any moment
SpecLazyReset == Init /\ [][NextLazyReset]_vars

NextBookkeeping ==
    \/ Tick
    \/ Producers({HotLead})
    \/ Dispatch(Scheduler)
    \/ \E stage \in {"event", "metrics", "counter"} : BookkeepingFails(Scheduler, stage)

\* cycles that run one after another while the database writes that follow a
\* successful send may fail
SpecBookkeeping == Init /\ [][NextBookkeeping]_vars

NextSerial ==
    \/ Tick
    \/ NewDay
    \/ Producers(Leads)
    \/ \E j \in Jobs : Cancel(j)
    \/ PoolEnvironment
    \/ Dispatch(Scheduler)

\* every dispatcher cycle runs to its end before the next one starts, while
\* producers, cancellation, the clock and the mailbox pool act at any moment
SpecSerial == Init /\ [][NextSerial]_vars

\* producers that schedule for later (send_delay_days, scheduled_for), manual
\* triggering, and cycles that run one after another
NextManual ==
    \/ Tick
    \/ \E t \in Tenants, delay \in {0, RetryDelay} : Enqueue(HotLead, t, delay)
    \/ \E j \in Jobs : SendSingleEmail(j)
    \/ Dispatch(Scheduler)

SpecManual == Init /\ [][NextManual]_vars

\* ------------------------------------- get_or_assign_mailbox_for_lead alone

\* a caller passes (lead_id, client_id), as tasks.py line 49 does
CallGetOrAssign(w, l, t) ==
    /\ pc[w] = "idle"
    /\ Len(assignments) < MaxAssignments
    /\ \A i \in DOMAIN assignments : assignments[i].email_count < MaxEmailCount
    /\ email' = [email EXCEPT ![w] = [id |-> 0, row |-> [lead_id |-> l, client_id |-> t]]]
    /\ pc' = [pc EXCEPT ![w] = "assign"]
    /\ UNCHANGED <<clockvars, trackingvars, dbvars, batch, gmail_token, transportvars, histvars, othervars>>

\* the call returns the token
ReturnGetOrAssign(w) ==
    /\ pc[w] = "send"
    /\ email[w].id = 0
    /\ email' = [email EXCEPT ![w] = NoEmail]
    /\ gmail_token' = [gmail_token EXCEPT ![w] = NULL]
    /\ pc' = [pc EXCEPT ![w] = "idle"]
    /\ UNCHANGED <<clockvars, trackingvars, dbvars, batch, transportvars, histvars, othervars>>

NextSticky ==
    \/ Tick
    \/ \E m \in Mailboxes, st \in {"active", "revoked"} : SetTokenStatus(m, st)
    \/ \E w \in Workers :
         \/ \E l \in Leads, t \in Tenants : CallGetOrAssign(w, l, t)
         \/ LookupAssignment(w)
         \/ AssignNewMailbox(w)
         \/ ReturnGetOrAssign(w)

\* concurrent callers of get_or_assign_mailbox_for_lead with any arguments,
\* while mailboxes are revoked and reconnected
SpecSticky == Init /\ [][NextSticky]_vars

\* ---------------------------------------------------------------- tracking

PixelIds == DOMAIN email_tracking_pixels
ClickIds == DOMAIN email_click_tracking

\* the state a tracking request leaves alone
sendvars == <<email_send_queue, gmail_tokens, assignments, clients,
              localvars, transportvars, histvars, othervars, linkvars, apivars, crashvars,
              replyvars>>

\* EmailTracker.create_tracking_pixel: a pixel row for an email to lead l (the
\* message_id is the temporary id of tasks.py line 62, no job's message id)
CreateTrackingPixel(l) ==
    LET p == Len(email_tracking_pixels) + 1 IN
    /\ p <= NumPixels
    /\ email_tracking_pixels' = Append(email_tracking_pixels,
         [lead_id |-> l, message_id |-> <<0, p>>, opened |-> FALSE,
          open_count |-> 0, first_opened_at |-> NULL, last_opened_at |-> NULL])
    /\ UNCHANGED <<clockvars, sendvars, email_events, email_click_tracking, leads,
                   hpc, hreq, result, response, opens, clickcalls>>

\* EmailTracker.create_click_tracking: a row for a link of an email to lead l
CreateClickTracking(l) ==
    LET c == Len(email_click_tracking) + 1 IN
    /\ c <= NumClicks
    /\ email_click_tracking' = Append(email_click_tracking,
         [lead_id |-> l, message_id |-> <<0, c>>,
          destination_url |-> "https://example.com",
          click_count |-> 0, first_clicked_at |-> NULL, last_clicked_at |-> NULL])
    /\ UNCHANGED <<clockvars, sendvars, email_events, email_tracking_pixels, leads,
                   hpc, hreq, result, response, opens, clickcalls>>

\* a response that tells a failed recording apart
TrackOpenResponseNotFound(success) ==
    IF success
    THEN [kind |-> "open", status |-> 200, content_type |-> "image/png",
          cache_control |-> "no-cache, no-store, must-revalidate",
          pragma |-> "no-cache", expires |-> "0", body |-> "TRANSPARENT_PIXEL"]
    ELSE [kind |-> "open", status |-> 404, content_type |-> "text/html",
          cache_control |-> "", pragma |-> "", expires |-> "", body |-> ""]

\* views.track_open, lines 284-293: the response, given what record_open returned
TrackOpenResponse(success) ==
    [kind |-> "open", status |-> 200, content_type |-> "image/png",
     cache_control |-> "no-cache, no-store, must-revalidate",
     pragma |-> "no-cache", expires |-> "0", body |-> "TRANSPARENT_PIXEL"]

\* views.track_click, lines 328-330: the redirect, given what record_click returned
TrackClickResponse(res) ==
    [kind |-> "click", status |-> 302, location |-> res.destination_url]

\* a lookup that creates the row it does not find
PixelMissingCreates(p) == Append(email_tracking_pixels,
    [lead_id |-> CHOOSE l \in Leads : TRUE, message_id |-> <<0, p>>, opened |-> TRUE,
     open_count |-> 1, first_opened_at |-> now, last_opened_at |-> now])

\* record_open, lines 148-150: the pixels table after EmailTrackingPixel.DoesNotExist
PixelMissing(p) == email_tracking_pixels

\* record_click that counts the unknown link
ClickMissingCreates(c) == Append(email_click_tracking,
    [lead_id |-> CHOOSE l \in Leads : TRUE, message_id |-> <<0, c>>,
     destination_url |-> "/",
     click_count |-> 1, first_clicked_at |-> now, last_clicked_at |-> now])

\* record_click, lines 207-212: the table after EmailClickTracking.DoesNotExist
ClickMissing(c) == email_click_tracking

\* views.track_open calls record_open(pixel_id), lines 113-116: the pixel is
\* read and the time taken; an unknown pixel_id ends the request at once
TrackOpen(h, p) ==
    /\ hpc[h] = "idle"
    /\ IF p \in PixelIds
       THEN /\ opens[p] < MaxOpens
            /\ hreq' = [hreq EXCEPT ![h] =
                 [id |-> p, row |-> email_tracking_pixels[p], now |-> now]]
            /\ hpc' = [hpc EXCEPT ![h] = "open"]
            /\ UNCHANGED <<email_tracking_pixels, result, response>>
       ELSE /\ email_tracking_pixels' = PixelMissing(p)
            /\ result' = [result EXCEPT ![h] =
                 [kind |-> "open", id |-> p, success |-> FALSE]]
            /\ response' = [response EXCEPT ![h] = TrackOpenResponse(FALSE)]
            /\ UNCHANGED <<hreq, hpc>>
    /\ UNCHANGED <<clockvars, sendvars, email_events, email_click_tracking, leads,
                   opens, clickcalls>>

\* record_open, lines 118-125: the row pixel.save() writes
OpenedRow(h) ==
    LET r == hreq[h].row IN
    [r EXCEPT !.opened = TRUE,
              !.first_opened_at = IF r.opened THEN r.first_opened_at ELSE hreq[h].now,
              !.open_count = r.open_count + 1,
              !.last_opened_at = hreq[h].now]

\* record_open, lines 118-146, and the response of track_open
RecordOpen(h) ==
    /\ hpc[h] = "open"
    /\ LET p == hreq[h].id
           l == hreq[h].row.lead_id
       IN  /\ email_tracking_pixels' = [email_tracking_pixels EXCEPT ![p] = OpenedRow(h)]
           /\ email_events' = Append(email_events,
                [event_type |-> "OPEN", lead_id |-> l, client_id |-> l,
                 message_id |-> hreq[h].row.message_id])
           /\ leads' = [leads EXCEPT ![l].emails_opened = @ + 1]
           /\ opens' = [opens EXCEPT ![p] = @ + 1]
           /\ result' = [result EXCEPT ![h] =
                [kind |-> "open", id |-> p, success |-> TRUE]]
           /\ response' = [response EXCEPT ![h] = TrackOpenResponse(TRUE)]
    /\ hreq' = [hreq EXCEPT ![h] = NoRequest]
    /\ hpc' = [hpc EXCEPT ![h] = "idle"]
    /\ UNCHANGED <<clockvars, sendvars, email_click_tracking, clickcalls>>

\* record_open, lines 151-153: pixel.save() raises, the open is not recorded
RecordOpenFails(h) ==
    /\ hpc[h] = "open"
    /\ result' = [result EXCEPT ![h] =
         [kind |-> "open", id |-> hreq[h].id, success |-> FALSE]]
    /\ response' = [response EXCEPT ![h] = TrackOpenResponse(FALSE)]
    /\ hreq' = [hreq EXCEPT ![h] = NoRequest]
    /\ hpc' = [hpc EXCEPT ![h] = "idle"]
    /\ UNCHANGED <<clockvars, sendvars, email_events, email_tracking_pixels,
                   email_click_tracking, leads, opens, clickcalls>>

\* views.track_click calls record_click(click_id), lines 169-172
TrackClick(h, c) ==
    /\ hpc[h] = "idle"
    /\ IF c \in ClickIds
       THEN /\ clickcalls[c] < MaxClickCalls
            /\ hreq' = [hreq EXCEPT ![h] =
                 [id |-> c, row |-> email_click_tracking[c], now |-> now]]
            /\ hpc' = [hpc EXCEPT ![h] = "click"]
            /\ UNCHANGED <<email_click_tracking, result, response>>
       ELSE LET res == [kind |-> "click", id |-> c, success |-> FALSE,
                        destination_url |-> "/"]
            IN  /\ email_click_tracking' = ClickMissing(c)
                /\ result' = [result EXCEPT ![h] = res]
                /\ response' = [response EXCEPT ![h] = TrackClickResponse(res)]
                /\ UNCHANGED <<hreq, hpc>>
    /\ UNCHANGED <<clockvars, sendvars, email_events, email_tracking_pixels, leads,
                   opens, clickcalls>>

\* record_click, lines 174-180: the row click.save() writes
ClickedRow(h) ==
    LET r == hreq[h].row IN
    [r EXCEPT !.first_clicked_at = IF r.click_count = 0 THEN hreq[h].now
                                   ELSE r.first_clicked_at,
              !.click_count = r.click_count + 1,
              !.last_clicked_at = hreq[h].now]

\* record_click, lines 174-205, and the redirect of track_click
RecordClick(h) ==
    /\ hpc[h] = "click"
    /\ LET c == hreq[h].id
           l == hreq[h].row.lead_id
           res == [kind |-> "click", id |-> c, success |-> TRUE,
                   destination_url |-> hreq[h].row.destination_url]
       IN  /\ email_click_tracking' = [email_click_tracking EXCEPT ![c] = ClickedRow(h)]
           /\ email_events' = Append(email_events,
                [event_type |-> "CLICK", lead_id |-> l, client_id |-> l,
                 message_id |-> hreq[h].row.message_id])
           /\ leads' = [leads EXCEPT ![l].emails_clicked = @ + 1]
           /\ clickcalls' = [clickcalls EXCEPT ![c] = @ + 1]
           /\ result' = [result EXCEPT ![h] = res]
           /\ response' = [response EXCEPT ![h] = TrackClickResponse(res)]
    /\ hreq' = [hreq EXCEPT ![h] = NoRequest]
    /\ hpc' = [hpc EXCEPT ![h] = "idle"]
    /\ UNCHANGED <<clockvars, sendvars, email_tracking_pixels, opens>>

\* record_click, lines 213-218: click.save() raises
RecordClickFails(h) ==
    /\ hpc[h] = "click"
    /\ LET res == [kind |-> "click", id |-> hreq[h].id, success |-> FALSE,
                   destination_url |-> "/"]
       IN  /\ result' = [result EXCEPT ![h] = res]
           /\ response' = [response EXCEPT ![h] = TrackClickResponse(res)]
    /\ hreq' = [hreq EXCEPT ![h] = NoRequest]
    /\ hpc' = [hpc EXCEPT ![h] = "idle"]
    /\ UNCHANGED <<clockvars, sendvars, email_events, email_tracking_pixels,
                   email_click_tracking, leads, opens, clickcalls>>

\* ------------------------------------------------------------ reply detection

\* a thread none of our emails is in
OtherThread == <<0, 0>>

\* the threads of the emails mailbox m has sent
SentThreads(m) ==
    { email_events[i].thread_id : i \in
        { k \in DOMAIN email_events :
            /\ email_events[k].event_type = "SENT"
            /\ email_send_queue[email_events[k].message_id[1]].sent_from_email = m } }

\* Gmail adds a message to mailbox m: a mail from outside (a lead's reply, or
\* unrelated mail) or a message the mailbox itself sent (the email the
\* dispatcher sent, a follow-up, the owner's own answer)
MessageAdded(m, thread, from_self) ==
    /\ Len(history[m]) < MaxMessages
    /\ thread \in SentThreads(m) \cup {OtherThread}
    /\ history' = [history EXCEPT ![m] = Append(@,
         [id |-> <<0, m, Len(history[m]) + 1>>, threadId |-> thread,
          from_self |-> from_self])]
    /\ UNCHANGED <<clockvars, dbvars, localvars, transportvars, histvars, othervars, linkvars,
                   apivars, crashvars, last_history_id,
                   email_tracking_pixels, email_click_tracking, leads, hpc, hreq,
                   result, response, opens, clickcalls>>

\* the SENT events process_potential_reply selects for a message of tenant t
SentInThread(events, message, t) ==
    { i \in DOMAIN events :
        /\ events[i].event_type = "SENT"
        /\ events[i].client_id = t
        /\ events[i].thread_id = message.threadId }

\* process_potential_reply(message, client_id = t, ...), lines 352-414, on
\* st = [events, leads]
ProcessPotentialReply(st, message, t) ==
    LET found == SentInThread(st.events, message, t) IN
    IF found = {} THEN st
    ELSE LET row == st.events[CHOOSE i \in found : \A k \in found : i <= k]
             l == row.lead_id
         IN  [events |-> Append(st.events,
                 [event_type |-> "REPLY", lead_id |-> l, client_id |-> t,
                  message_id |-> message.id, thread_id |-> message.threadId]),
              leads |-> [st.leads EXCEPT ![l].emails_replied = @ + 1,
                                         ![l].sequence_status = "REPLIED"]]

\* check_for_replies, lines 161-174: the messages of the history records
RECURSIVE ProcessMessages(_, _, _)
ProcessMessages(st, messages, t) ==
    IF messages = <<>> THEN st
    ELSE ProcessMessages(ProcessPotentialReply(st, Head(messages), t),
                         Tail(messages), t)

\* gmail_client.get_profile()['historyId'] of mailbox m
HistoryId(m) == Len(history[m]) + 1

\* gmail_client.list_history(token.last_history_id): the messages added since
ListHistory(m) == SubSeq(history[m], last_history_id[m], Len(history[m]))

\* check_for_replies, lines 143-178: the loop over the active tokens from m on
RECURSIVE CheckTokens(_, _)
CheckTokens(st, m) ==
    IF m > NumMailboxes THEN st
    ELSE IF gmail_tokens[m].status # "active" THEN CheckTokens(st, m + 1)
    ELSE CheckTokens(
           IF last_history_id[m] # NULL
           THEN ProcessMessages(st, ListHistory(m), MailboxOwner(m))
           ELSE st,
           m + 1)

\* tasks.check_for_replies, run every 15 minutes by celery beat
CheckForReplies ==
    LET st == CheckTokens([events |-> email_events, leads |-> leads], 1) IN
    /\ email_events' = st.events
    /\ leads' = st.leads
    /\ last_history_id' = [m \in Mailboxes |->
         IF gmail_tokens[m].status = "active" THEN HistoryId(m)
         ELSE last_history_id[m]]
    /\ UNCHANGED <<clockvars, email_send_queue, gmail_tokens, assignments, clients,
                   localvars, transportvars, histvars, othervars, linkvars, apivars, crashvars,
                   history, email_tracking_pixels, email_click_tracking, hpc, hreq,
                   result, response, opens, clickcalls>>

\* check_for_replies, lines 143-156, for the token of mailbox m: the token
\* object as the queryset loaded it, and get_profile()['historyId']
CheckRepliesStart(r, m) ==
    /\ run[r] = NoResult
    /\ gmail_tokens[m].status = "active"
    /\ run' = [run EXCEPT ![r] = [kind |-> "run", mailbox |-> m,
                                  last_history_id |-> last_history_id[m],
                                  current_history_id |-> HistoryId(m)]]
    /\ UNCHANGED <<clockvars, dbvars, localvars, transportvars, returned, deactivated,
                   handlervars, jwtvars, manualvars, limitvars>>

\* gmail_client.list_history(token.last_history_id) when the run calls it:
\* every message added since, those added after get_profile included
ListHistoryFrom(m, start) == SubSeq(history[m], start, Len(history[m]))

\* check_for_replies, lines 159-174: email_events and leads after the run has
\* processed the messages list_history returns
AfterMessages(r) ==
    LET m == run[r].mailbox
        st == [events |-> email_events, leads |-> leads]
    IN  IF run[r].last_history_id # NULL
        THEN ProcessMessages(st, ListHistoryFrom(m, run[r].last_history_id),
                             MailboxOwner(m))
        ELSE st

\* check_for_replies, lines 159-178: list_history, process_potential_reply for
\* every message, then token.last_history_id = current_history_id; token.save()
CheckRepliesFinish(r) ==
    /\ run[r] # NoResult
    /\ email_events' = AfterMessages(r).events
    /\ leads' = AfterMessages(r).leads
    /\ last_history_id' = [last_history_id EXCEPT
                             ![run[r].mailbox] = run[r].current_history_id]
    /\ run' = [run EXCEPT ![r] = NoResult]
    /\ UNCHANGED <<clockvars, email_send_queue, gmail_tokens, assignments, clients,
                   localvars, transportvars, returned, deactivated, history,
                   email_tracking_pixels, email_click_tracking, hpc, hreq, result,
                   response, opens, clickcalls, linkvars, apivars, crashvars,
                   jwtvars, manualvars, limitvars>>

\* check_for_replies, lines 159-181: the messages are processed, then
\* token.save() raises (or the worker is stopped) and last_history_id stays
CheckRepliesAbort(r) ==
    /\ run[r] # NoResult
    /\ Len(email_events) < MaxEvents
    /\ email_events' = AfterMessages(r).events
    /\ leads' = AfterMessages(r).leads
    /\ run' = [run EXCEPT ![r] = NoResult]
    /\ UNCHANGED <<clockvars, email_send_queue, gmail_tokens, assignments, clients,
                   localvars, transportvars, returned, deactivated, replyvars,
                   email_tracking_pixels, email_click_tracking, hpc, hreq, result,
                   response, opens, clickcalls, linkvars, apivars, crashvars,
                   jwtvars, manualvars, limitvars>>

NextReplyRuns ==
    \/ Producers({HotLead})
    \/ Fetch(Scheduler)
    \/ CheckLimit(Scheduler)
    \/ Claim(Scheduler)
    \/ LookupAssignment(Scheduler)
    \/ AssignNewMailbox(Scheduler)
    \/ SendSucceeds(Scheduler)
    \/ \E m \in Mailboxes, j \in Jobs : MessageAdded(m, <<j, 1>>, FALSE)
    \/ \E r \in Runs :
         \/ \E m \in Mailboxes : CheckRepliesStart(r, m)
         \/ CheckRepliesFinish(r)
         \/ CheckRepliesAbort(r)

\* emails are sent and leads answer them while check_for_replies runs, its
\* runs overlapping or stopping before the token is saved
SpecReplyRuns == Init /\ [][NextReplyRuns]_vars

NextReplies ==
    \/ Producers({HotLead})
    \/ Dispatch(Scheduler)
    \/ \E m \in Mailboxes, j \in Jobs, n \in 0..MaxAttempts, from_self \in BOOLEAN :
         MessageAdded(m, <<IF n = 0 THEN 0 ELSE j, n>>, from_self)
    \/ CheckForReplies

\* emails are sent, messages arrive in the mailboxes and are sent from them,
\* and the reply check runs again and again
SpecReplies == Init /\ [][NextReplies]_vars

\* ------------------------------------------------------------ enqueue endpoint

\* POST bodies of the enqueue endpoint: NULL stands for a field left out
\* settings.OREE_API_KEY
ExpectedKey == "key"

\* Authorization headers as auth_header.split(' ') sees them; <<>> is a missing
\* or empty header
Headers ==
    {<<>>, <<"Basic", "key">>, <<"Bearer", "wrong">>, <<"Bearer", "key">>,
     <<"Bearer", "key", "x">>}

\* a decorator that accepts any well-formed Bearer header
RequireApiKeyAnyKey(header) ==
    /\ header # <<>>
    /\ Len(header) = 2 /\ header[1] = "Bearer"

\* utils.require_api_key: TRUE when the view is called, FALSE for a 401
RequireApiKey(header) ==
    /\ header # <<>>
    /\ Len(header) = 2 /\ header[1] = "Bearer"
    /\ header[2] = ExpectedKey

Requests ==
    [auth_header : Headers, lead_id : Leads, client_id : Tenants,
     sequence_number : {0, 1, 4, 5}, send_delay_days : {NULL, 0 - 2, 0, 1},
     scheduled_for : {NULL, 0, MaxTime + 1}]

\* EmailSendRequestSerializer.is_valid()
IsValid(req) ==
    /\ req.sequence_number >= 1 /\ req.sequence_number <= 4
    /\ req.send_delay_days = NULL \/ req.send_delay_days >= 0

\* validated_data.get('send_delay_days', 0) with the serializer's default
SendDelayDays(req) == IF req.send_delay_days = NULL THEN 0 ELSE req.send_delay_days

\* a scheduled_for that ignores the supplied value
ScheduledForFromDelay(req) == now + SendDelayDays(req) * TicksPerDay

\* views.send_email, lines 109-112
ScheduledFor(req) ==
    IF req.scheduled_for # NULL THEN req.scheduled_for
    ELSE now + SendDelayDays(req) * TicksPerDay

\* views.send_email: the whole request, create() succeeding
SendEmail(req) ==
    LET j == Cardinality(Rows) + 1 IN
    /\ j \in Jobs
    /\ IF ~RequireApiKey(req.auth_header)
       THEN /\ api_response' = [kind |-> "send_email", status |-> 401]
            /\ UNCHANGED email_send_queue
       ELSE IF ~IsValid(req)
       THEN /\ api_response' = [kind |-> "send_email", status |-> 400]
            /\ UNCHANGED email_send_queue
       ELSE /\ email_send_queue' = email_send_queue @@
                 (j :> [lead_id |-> req.lead_id, client_id |-> req.client_id,
                        status |-> "PENDING",
                        attempts |-> 0, max_attempts |-> MaxAttempts,
                        scheduled_for |-> ScheduledFor(req), last_error |-> "",
                        failed_at |-> NULL, sent_at |-> NULL,
                        sent_from_email |-> NULL])
            /\ api_response' = [kind |-> "send_email", status |-> 201, success |-> TRUE,
                                queue_id |-> j, scheduled_for |-> ScheduledFor(req)]
    /\ UNCHANGED <<clockvars, gmail_tokens, assignments, clients, email_events,
                   localvars, transportvars, histvars, othervars, linkvars, crashvars, replyvars,
                   email_tracking_pixels, email_click_tracking, leads, hpc, hreq,
                   result, response, opens, clickcalls>>

\* views.send_email, lines 138-143: create() raises
SendEmailCreateFails(req) ==
    /\ RequireApiKey(req.auth_header)
    /\ IsValid(req)
    /\ api_response' = [kind |-> "send_email", status |-> 500]
    /\ UNCHANGED <<clockvars, dbvars, localvars, transportvars, histvars, othervars, linkvars,
                   crashvars, replyvars, email_tracking_pixels, email_click_tracking, leads, hpc, hreq,
                   result, response, opens, clickcalls>>

NextEnqueue ==
    \/ Tick
    \/ \E req \in Requests : SendEmail(req)
    \/ \E req \in Requests : SendEmailCreateFails(req)

\* enqueue requests of every shape arrive as time passes
SpecEnqueue == Init /\ [][NextEnqueue]_vars

\* ------------------------------------------------------------ link rewriting

\* an href: what it starts with, the parts of the rest, and the click_id it
\* ends with when it is a tracking URL (0 otherwise)
Href(scheme, path) == [scheme |-> scheme, path |-> path, click_id |-> 0]

\* the hrefs an email body is written with
OriginalHrefs ==
    { Href("mailto:", <<"sales@example.com">>),
      Href("tel:", <<"5550100">>),
      Href("#", <<"top">>),
      Href("https://", <<"example.com", "pricing">>),
      Href("https://", <<"example.com", "docs">>),
      Href("https://", <<"partner.example", "track/click", "promo">>) }

RECURSIVE Bodies(_)
Bodies(n) ==
    IF n = 0 THEN { <<>> }
    ELSE Bodies(n - 1) \cup
         { Append(b, u) : b \in { d \in Bodies(n - 1) : Len(d) = n - 1 },
                          u \in OriginalHrefs }

\* create_click_tracking, line 89: the tracking URL of click_id c
TrackingUrl(c) ==
    [scheme |-> "https://", path |-> <<"tracking.example", "api", "track/click">>,
     click_id |-> c]

\* replace_links_with_tracking, line 243: original_url.startswith(...)
StartsWithSkipped(url) == url.scheme \in {"mailto:", "tel:", "#"}

\* a test that recognises no link as tracked
ContainsTrackClickNever(url) == FALSE

\* replace_links_with_tracking, line 247: 'track/click' in original_url
ContainsTrackClick(url) == \E i \in DOMAIN url.path : url.path[i] = "track/click"

\* the loop of replace_links_with_tracking from link i on: body and click
\* table after it; create_click_tracking raises for the links in `failing`
\* and returns the destination_url itself (line 97)
RECURSIVE ReplaceFrom(_, _, _, _, _)
ReplaceFrom(body, table, l, failing, i) ==
    IF i > Len(body) THEN [html |-> body, table |-> table]
    ELSE LET original_url == body[i]
             c == Len(table) + 1
         IN  IF StartsWithSkipped(original_url) \/ ContainsTrackClick(original_url)
                \/ i \in failing
             THEN ReplaceFrom(body, table, l, failing, i + 1)
             ELSE ReplaceFrom([body EXCEPT ![i] = TrackingUrl(c)],
                              Append(table,
                                [lead_id |-> l, message_id |-> <<0, c>>,
                                 destination_url |-> original_url,
                                 click_count |-> 0, first_clicked_at |-> NULL,
                                 last_clicked_at |-> NULL]),
                              l, failing, i + 1)

\* an email body is written for a lead
ComposeBody(body) ==
    /\ html' = body
    /\ applied' = 0
    /\ UNCHANGED <<clockvars, dbvars, localvars, transportvars, histvars, othervars, apivars, crashvars, replyvars,
                   email_tracking_pixels, email_click_tracking, leads, hpc, hreq,
                   result, response, opens, clickcalls>>

\* EmailTracker.replace_links_with_tracking(html, lead_id = l, ...)
ReplaceLinksWithTracking(l, failing) ==
    LET out == ReplaceFrom(html, email_click_tracking, l, failing, 1) IN
    /\ applied < MaxApplications
    /\ Len(out.table) <= MaxClickRows
    /\ html' = out.html
    /\ email_click_tracking' = out.table
    /\ applied' = applied + 1
    /\ UNCHANGED <<clockvars, dbvars, localvars, transportvars, histvars, othervars, apivars, crashvars, replyvars,
                   email_tracking_pixels, leads, hpc, hreq,
                   result, response, opens, clickcalls>>

NextLinks ==
    \/ \E body \in Bodies(MaxLinks) : ComposeBody(body)
    \/ \E failing \in SUBSET (1..MaxLinks) : ReplaceLinksWithTracking(HotLead, failing)

\* bodies are written and rewritten, some of them more than once
SpecLinks == Init /\ [][NextLinks]_vars

NextOpens ==
    \/ Tick
    \/ \E l \in Leads : CreateTrackingPixel(l)
    \/ \E h \in Handlers :
         \/ \E p \in 1..(NumPixels + 1) : TrackOpen(h, p)
         \/ RecordOpen(h)
         \/ RecordOpenFails(h)

\* requests for the tracking pixel arrive concurrently and independently, for
\* known and unknown pixel ids, while emails with pixels are created
SpecOpens == Init /\ [][NextOpens]_vars

NextClicks ==
    \/ Tick
    \/ \E l \in Leads : CreateClickTracking(l)
    \/ \E h \in Handlers :
         \/ \E c \in 1..(NumClicks + 1) : TrackClick(h, c)
         \/ RecordClick(h)
         \/ RecordClickFails(h)

\* clicks on tracked links arrive concurrently and independently, for known
\* and unknown click ids, while emails with tracked links are created
SpecClicks == Init /\ [][NextClicks]_vars

\* ------------------------------------------------------ client authentication

JwtLifetime == 7         \* timedelta(days=7)
MaxUtcDay == 8           \* days the clock runs

\* settings.JWT_SECRET_KEY and settings.JWT_ALGORITHM
JwtSecretKey == "secret"
JwtAlgorithm == "HS256"

\* what verify_client_jwt returns for a token it rejects
JwtNone == [returns |-> "None"]

\* client ids as callers pass them: a uuid.UUID from the clients row, or its
\* string form
ClientIds == [type : {"uuid", "str"}, v : Tenants]
CompanyNames == {"Acme", "Globex"}
Tiers == {"self_serve", "managed"}
ClientEmails == {"client@acme.com"}

\* str(client_id)
Str(x) == [type |-> "str", v |-> x.v]

\* the HMAC of a header and payload under a key
Sign(key, alg, payload) == [key |-> key, alg |-> alg, payload |-> payload]

\* jwt.encode(payload, key, algorithm)
JwtEncode(payload, key, alg) ==
    [segments |-> 3, alg |-> alg, payload |-> payload,
     sig |-> Sign(key, alg, payload)]

\* the payload generate_client_jwt builds at time t
JwtPayload(client_id, company_name, tier, address, t) ==
    [client_id |-> Str(client_id), company_name |-> company_name,
     tier |-> tier, email |-> address, exp |-> t + JwtLifetime, iat |-> t]

\* jwt.decode that skips the exp claim
JwtDecodeNoExp(token, t) ==
    IF token.segments # 3 THEN JwtNone
    ELSE IF token.alg # JwtAlgorithm THEN JwtNone
    ELSE IF token.sig # Sign(JwtSecretKey, token.alg, token.payload) THEN JwtNone
    ELSE [returns |-> "payload", payload |-> token.payload]

\* verify_client_jwt: jwt.decode(token, key, algorithms=[alg]) with
\* ExpiredSignatureError and InvalidTokenError turned into None
JwtDecode(token, t) ==
    IF token.segments # 3 THEN JwtNone
    ELSE IF token.alg # JwtAlgorithm THEN JwtNone
    ELSE IF token.sig # Sign(JwtSecretKey, token.alg, token.payload) THEN JwtNone
    ELSE IF token.payload.exp <= t THEN JwtNone
    ELSE [returns |-> "payload", payload |-> token.payload]

\* tokens somebody without the key can make out of a genuine one
Forgeries(token) ==
    { [segments |-> 1],
      [token EXCEPT !.payload.exp = MaxUtcDay + JwtLifetime + 1],
      [token EXCEPT !.payload.tier = "root"],
      JwtEncode(token.payload, "guess", JwtAlgorithm),
      [segments |-> 3, alg |-> "none", payload |-> token.payload,
       sig |-> Sign("", "none", token.payload)] }

\* a day passes
PassDay ==
    /\ utcnow < MaxUtcDay
    /\ utcnow' = utcnow + 1
    /\ UNCHANGED <<corevars, manualvars, limitvars, runvars, jwt_call, jwt_token, jwt_forged, jwt_result>>

\* utils.generate_client_jwt
GenerateClientJwt(client_id, company_name, tier, address) ==
    /\ jwt_call' = [kind |-> "generate", client_id |-> client_id,
                    company_name |-> company_name, tier |-> tier,
                    email |-> address, at |-> utcnow]
    /\ jwt_token' = JwtEncode(JwtPayload(client_id, company_name, tier, address,
                                         utcnow),
                              JwtSecretKey, JwtAlgorithm)
    /\ jwt_forged' = FALSE
    /\ jwt_result' = NoResult
    /\ UNCHANGED <<corevars, manualvars, limitvars, runvars, utcnow>>

\* the token is replaced by a forgery before it is presented
Forge ==
    /\ jwt_call # NoResult
    /\ ~jwt_forged
    /\ \E f \in Forgeries(jwt_token) :
          jwt_token' = f
    /\ jwt_forged' = TRUE
    /\ jwt_result' = NoResult
    /\ UNCHANGED <<corevars, manualvars, limitvars, runvars, utcnow, jwt_call>>

\* utils.verify_client_jwt on the token presented
VerifyClientJwt ==
    /\ jwt_result' = [kind |-> "verify", at |-> utcnow] @@ JwtDecode(jwt_token, utcnow)
    /\ UNCHANGED <<corevars, manualvars, limitvars, runvars, utcnow, jwt_call, jwt_token, jwt_forged>>

NextJwt ==
    \/ PassDay
    \/ \E c \in ClientIds, n \in CompanyNames, t \in Tiers, e \in ClientEmails :
         GenerateClientJwt(c, n, t, e)
    \/ Forge
    \/ VerifyClientJwt

\* tokens are issued, sometimes forged, and presented for verification on any
\* later day
SpecJwt == Init /\ [][NextJwt]_vars

\* ===================================================================== claims

\* positions of a worker that has claimed a job and not yet finished with it
Claimed == {"assign", "next_token", "send"}

\* the job worker w has claimed (0 when it holds none)
ClaimedJob(w) == IF pc[w] \in Claimed THEN email[w].id ELSE 0

\* SENT events recorded for job j
SentEvents(j) ==
    Cardinality({i \in DOMAIN email_events :
                    /\ email_events[i].message_id[1] = j
                    /\ email_events[i].event_type = "SENT"})

\* the status moves the send queue allows
LegalMoves ==
    {<<"PENDING", "SENDING">>, <<"SENDING", "SENT">>, <<"SENDING", "PENDING">>,
     <<"SENDING", "FAILED">>, <<"PENDING", "CANCELLED">>}

\* the only active mailbox of tenant t has used up its daily limit
OnlyActiveMailboxFull(t) ==
    \E m \in Mailboxes :
        /\ ActiveTokens(t) = {m}
        /\ gmail_tokens[m].daily_send_count >= gmail_tokens[m].daily_send_limit

\* C1: two concurrent dispatcher cycles never both claim the same PENDING job:
\* no two workers hold the same job between their claim and the end of their
\* iteration (so at most one of them invokes the transport for it).
C1_ClaimExactlyOnce ==
    \A v, w \in Workers :
        (v # w /\ ClaimedJob(v) # 0) => ClaimedJob(v) # ClaimedJob(w)

\* C2: attempts never exceeds max_attempts, and a FAILED job is never attempted
\* again: no step takes a FAILED row out of FAILED.
C2_FailedNeverAttemptedAgain ==
    [][\A j \in Rows :
         /\ email_send_queue'[j].attempts <= email_send_queue'[j].max_attempts
         /\ email_send_queue[j].status = "FAILED"
              => email_send_queue'[j].status = "FAILED"]_vars

\* C3: a job's status only moves PENDING -> SENDING -> {SENT, PENDING, FAILED}
\* and PENDING -> CANCELLED; SENT, FAILED and CANCELLED are never left.
C3_StatusMoves ==
    [][\A j \in Rows :
         \/ email_send_queue'[j].status = email_send_queue[j].status
         \/ <<email_send_queue[j].status, email_send_queue'[j].status>>
              \in LegalMoves]_vars

\* C4: once get_or_assign_mailbox_for_lead has returned an identity for a
\* (lead, tenant), every later call for that pair returns that same identity, as
\* long as the identity has stayed active.
C4_SameIdentity ==
    [][\A w \in Workers :
         (pc[w] = "assign" /\ pc'[w] # "assign") =>
            \A m \in returned[<<email[w].row.lead_id, email[w].row.client_id>>] :
                m \notin deactivated =>
                    /\ pc'[w] = "send"
                    /\ gmail_token'[w] = m]_vars

\* C4 witness: a second call for a pair has returned the identity of the first,
\* which has stayed active.
C4_Witness ==
    \E w \in Workers, i \in DOMAIN assignments :
        /\ pc[w] = "send"
        /\ assignments[i].lead_id = email[w].row.lead_id
        /\ assignments[i].client_id = email[w].row.client_id
        /\ assignments[i].email_count >= 2
        /\ gmail_token[w] = assignments[i].assigned_email
        /\ gmail_token[w] \notin deactivated

\* C5: there is at most one active assignment per (lead, tenant), and a lead
\* that has been sent to has exactly one: a call that assigns a mailbox while
\* the tenant has an active identity leaves exactly one active assignment.
C5_ExactlyOneActive ==
    [][\A w \in Workers :
         LET l == email[w].row.lead_id
             t == email[w].row.client_id
         IN  (pc[w] = "next_token" /\ pc'[w] # "next_token" /\ ActiveTokens(t) # {})
                => Cardinality({i \in DOMAIN assignments' :
                                   /\ assignments'[i].lead_id = l
                                   /\ assignments'[i].client_id = t
                                   /\ assignments'[i].status = "active"}) = 1]_vars

\* C6: when two jobs of one lead without an assignment are dispatched
\* concurrently, the call that loses the uniqueness race returns the identity
\* of the winner.  (The job of the loser is held by no other worker and nobody
\* else has written its row: the race is between two jobs.)
C6_LoserReturnsWinner ==
    [][\A w \in Workers :
         LET l == email[w].row.lead_id
             t == email[w].row.client_id
         IN  ( /\ pc[w] = "next_token"
               /\ pc'[w] # "next_token"
               /\ email[w].id \in Rows
               /\ email_send_queue[email[w].id] = email[w].row
               /\ \A v \in Workers \ {w} : email[v].id # email[w].id
               /\ ActiveAssignments(l, t) # {} )
             => /\ pc'[w] = "send"
                /\ \E i \in ActiveAssignments(l, t) :
                     gmail_token'[w] = assignments[i].assigned_email]_vars

C8_SendCounted ==
    [][\A w \in Workers :
         (pc[w] = "send" /\ pc'[w] # "send" /\ delivered' # delivered) =>
            LET m == gmail_token[w] IN
            /\ gmail_tokens'[m].daily_send_count = gmail_tokens[m].daily_send_count + 1
            /\ gmail_tokens'[m].last_used_at = now]_vars

\* C9: while the only active mailbox of a tenant is at its daily limit, a
\* dispatch attempt for a job of that tenant invokes no transport, creates no
\* event and leaves the attempts of the job alone.
C9_NoSendAtLimit ==
    [][\A w \in Workers :
         ( /\ pc[w] = "send"
           /\ pc'[w] # "send"
           /\ email[w].id \in Rows
           /\ OnlyActiveMailboxFull(email[w].row.client_id) )
         => /\ delivered' = delivered
            /\ email_events' = email_events
            /\ email_send_queue'[email[w].id].attempts = email[w].row.attempts]_vars

\* C10: the mailbox given to a lead without an assignment is an active identity
\* below its daily limit, with the largest remaining capacity and, among
\* those, the least recently used.
C10_ChoosesByCapacity ==
    [][Len(assignments') > Len(assignments) =>
         LET a == assignments'[Len(assignments')]
         IN  a.assigned_email \in MailboxWithCapacity(a.client_id)]_vars

\* C11: a job whose transport calls all fail is FAILED after exactly
\* max_attempts transport invocations, with attempts = max_attempts, failed_at
\* set and last_error non-empty: the transport is never invoked more than
\* max_attempts times for a job it never accepted.
C11_FailedAfterMaxAttempts ==
    \A j \in Rows :
        LET r == email_send_queue[j] IN
        /\ r.status = "FAILED" =>
              /\ r.attempts = r.max_attempts
              /\ r.failed_at # NULL
              /\ r.last_error # ""
        /\ delivered[j] = 0 => invoked[j] <= r.max_attempts

\* C12: a transport failure that leaves attempts < max_attempts puts the job
\* back to PENDING with scheduled_for = now + 5 minutes, and a cycle claims a
\* job (and then invokes the transport for it) only when the stored
\* scheduled_for has come.
C12_BackoffRespected ==
    [][\A w \in Workers :
         /\ (pc[w] = "send" /\ pc'[w] # "send" /\ email[w].id \in Rows
               /\ delivered' = delivered
               /\ email[w].row.attempts + 1 < email[w].row.max_attempts)
            => /\ email_send_queue'[email[w].id].status = "PENDING"
               /\ email_send_queue'[email[w].id].scheduled_for = now + RetryDelay
         /\ (pc[w] = "claim" /\ pc'[w] # "claim")
            => email_send_queue[email[w].id].scheduled_for <= now]_vars

\* C13: scheduled_for of a job never decreases: no operation on an existing job
\* (dispatcher retry, send_single_email) sets it to an earlier instant.
C13_ScheduledForMonotone ==
    [][\A j \in Rows :
         email_send_queue'[j].scheduled_for >= email_send_queue[j].scheduled_for]_vars

\* the tenant has used up its daily limit for today
TenantExhausted(t) ==
    /\ clients[t].exists
    /\ clients[t].last_reset_date >= today
    /\ clients[t].emails_sent_today >= clients[t].gmail_daily_limit

\* C14: when the tenant's daily limit is exhausted the dispatcher skips the
\* job and changes nothing: the row (status, attempts, scheduled_for,
\* last_error) stays as it is, the transport is not invoked, no assignment is
\* created or counted, no event is appended, and the cycle does not come back
\* to the job.
C14_SkipChangesNothing ==
    [][\A w \in Workers :
         (pc[w] = "loop" /\ batch'[w] # batch[w]
            /\ TenantExhausted(Head(batch[w]).row.client_id))
         => /\ email_send_queue' = email_send_queue
            /\ assignments' = assignments
            /\ email_events' = email_events
            /\ gmail_tokens' = gmail_tokens
            /\ clients' = clients
            /\ delivered' = delivered
            /\ invoked' = invoked
            /\ pc'[w] \in {"loop", "idle"}
            /\ email'[w] = NoEmail
            /\ \A i \in DOMAIN batch'[w] : batch'[w][i].id # Head(batch[w]).id]_vars

\* C14 witness: a cycle reaches a due PENDING job of a tenant whose limit is
\* exhausted.
C14_Witness ==
    \E w \in Workers :
        /\ pc[w] = "loop"
        /\ TenantExhausted(Head(batch[w]).row.client_id)
        /\ email_send_queue[Head(batch[w]).id].status = "PENDING"
        /\ email_send_queue[Head(batch[w]).id].scheduled_for <= now

\* jobs of tenant t that the transport has accepted
SentJobs(t) ==
    {j \in Rows : email_send_queue[j].client_id = t /\ delivered[j] > 0}

\* C15: the tenant rate limit holds under concurrency: the number of jobs of a
\* tenant sent within one day never exceeds the tenant's daily limit.  (No
\* midnight passes in Spec, and a job sent twice is counted once.)
C15_TenantLimitEnforced ==
    \A t \in Tenants :
        clients[t].exists =>
            Cardinality(SentJobs(t)) <= clients[t].gmail_daily_limit

\* OPEN events recorded for the email of pixel p
OpenEvents(p) ==
    Cardinality({i \in DOMAIN email_events :
                    /\ email_events[i].event_type = "OPEN"
                    /\ email_events[i].message_id = email_tracking_pixels[p].message_id})

\* OPEN events recorded for lead l
LeadOpenEvents(l) ==
    Cardinality({i \in DOMAIN email_events :
                    /\ email_events[i].event_type = "OPEN"
                    /\ email_events[i].lead_id = l})

\* no request is between reading and saving pixel p
PixelQuiet(p) == \A h \in Handlers : hpc[h] = "open" => hreq[h].id # p

\* C16: N calls of record_open on a valid pixel, concurrent ones included,
\* yield open_count = N, N OPEN events and N more emails_opened of the lead.
C16_OpenCountExact ==
    /\ \A p \in PixelIds :
         PixelQuiet(p) =>
            /\ email_tracking_pixels[p].open_count = opens[p]
            /\ OpenEvents(p) = opens[p]
    /\ \A l \in Leads : leads[l].emails_opened = LeadOpenEvents(l)

\* C17: first_opened_at is set by the first record_open call, to that call's
\* timestamp, and no later call changes it; opened goes from false to true
\* once and never back.
C17_FirstOpenedAtFixed ==
    [][\A p \in PixelIds :
         LET r == email_tracking_pixels[p]
             q == email_tracking_pixels'[p]
         IN  /\ r.opened => q.opened
             /\ r.first_opened_at # NULL => q.first_opened_at = r.first_opened_at
             /\ r.opened <=> r.first_opened_at # NULL]_vars

\* C18: record_open with a pixel_id that matches no pixel returns False and
\* leaves every pixel row, the event log and the lead counters unchanged.
C18_UnknownPixelNoEffect ==
    [][\A h \in Handlers, p \in 1..(NumPixels + 1) :
         (p \notin PixelIds /\ TrackOpen(h, p)) =>
            /\ result'[h].kind = "open"
            /\ result'[h].success = FALSE
            /\ email_tracking_pixels' = email_tracking_pixels
            /\ email_click_tracking' = email_click_tracking
            /\ email_events' = email_events
            /\ leads' = leads]_vars

\* C18 witness: record_open has returned False for an unknown pixel_id while a
\* pixel with recorded opens exists.
C18_Witness ==
    \E h \in Handlers, p \in PixelIds :
        /\ result[h].kind = "open"
        /\ result[h].id \notin PixelIds
        /\ result[h].success = FALSE
        /\ email_tracking_pixels[p].open_count > 0

\* C19: the pixel endpoint answers 200, image/png, no-cache headers and the
\* pixel bytes whether the pixel_id is valid, unknown, or the recording failed.
C19_SameResponse ==
    \A h \in Handlers :
        response[h].kind = "open" =>
            /\ response[h].status = 200
            /\ response[h].content_type = "image/png"
            /\ response[h].cache_control = "no-cache, no-store, must-revalidate"
            /\ response[h].pragma = "no-cache"
            /\ response[h].expires = "0"
            /\ response[h].body = "TRANSPARENT_PIXEL"
            /\ \A g \in Handlers : response[g].kind = "open" => response[g] = response[h]

\* C19 witness: one request recorded an open, another was for an unknown
\* pixel_id, and both got a response.
C19_Witness ==
    \E g, h \in Handlers :
        /\ result[g].kind = "open" /\ result[g].success = TRUE
        /\ result[h].kind = "open" /\ result[h].success = FALSE
        /\ result[h].id \notin PixelIds
        /\ response[g].kind = "open"
        /\ response[h].kind = "open"

\* C20: record_click with an unknown click_id gives the redirect target "/"
\* and changes nothing: no click row, no event, no lead counter.
C20_UnknownClickNoEffect ==
    [][\A h \in Handlers, c \in 1..(NumClicks + 1) :
         (c \notin ClickIds /\ TrackClick(h, c)) =>
            /\ result'[h].success = FALSE
            /\ result'[h].destination_url = "/"
            /\ response'[h].status = 302
            /\ response'[h].location = "/"
            /\ email_click_tracking' = email_click_tracking
            /\ email_tracking_pixels' = email_tracking_pixels
            /\ email_events' = email_events
            /\ leads' = leads]_vars

\* C20 witness: an unknown click_id was redirected to "/" while a link with
\* recorded clicks exists.
C20_Witness ==
    \E h \in Handlers, c \in ClickIds :
        /\ result[h].kind = "click"
        /\ result[h].id \notin ClickIds
        /\ response[h].location = "/"
        /\ email_click_tracking[c].click_count > 0

\* C21: each record_click on a valid click_id returns the destination_url
\* stored at creation, raises that row's click_count by exactly 1, appends
\* exactly one CLICK event and raises the lead's click counter by exactly 1.
C21_ClickCountedOnce ==
    [][\A h \in Handlers :
         RecordClick(h) =>
            LET c == hreq[h].id
                l == email_click_tracking[c].lead_id
            IN  /\ result'[h].destination_url = email_click_tracking[c].destination_url
                /\ response'[h].location = email_click_tracking[c].destination_url
                /\ email_click_tracking'[c].click_count =
                      email_click_tracking[c].click_count + 1
                /\ Len(email_events') = Len(email_events) + 1
                /\ email_events'[Len(email_events')].event_type = "CLICK"
                /\ leads'[l].emails_clicked = leads[l].emails_clicked + 1]_vars

\* C22: replace_links_with_tracking applied to a body it already rewrote
\* changes no link tracked before and creates no click row for such a link;
\* when every link was tracked or skipped, body and table stay as they are.
C22_RewriteIdempotent ==
    [][\A failing \in SUBSET (1..MaxLinks) :
         (applied >= 1 /\ ReplaceLinksWithTracking(HotLead, failing)) =>
            /\ Len(html') = Len(html)
            /\ \A i \in DOMAIN html :
                  html[i].click_id # 0 =>
                     /\ html'[i] = html[i]
                     /\ \A c \in DOMAIN email_click_tracking' :
                           c > Len(email_click_tracking) =>
                              email_click_tracking'[c].destination_url # html[i]
            /\ (\A i \in DOMAIN html :
                   \/ html[i].click_id # 0
                   \/ StartsWithSkipped(html[i])
                   \/ ContainsTrackClick(html[i]))
                  => /\ html' = html
                     /\ email_click_tracking' = email_click_tracking]_vars

\* C22 witness: a body holding a tracked link has been rewritten a second time.
C22_Witness ==
    /\ applied >= 2
    /\ \E i \in DOMAIN html : html[i].click_id # 0

\* C23: a job cancelled while PENDING stays CANCELLED and is never passed to
\* the mail transport, also when it is cancelled while a dispatcher cycle that
\* read it in its batch is still running.
C23_CancelledStays ==
    [][\A j \in Rows :
         email_send_queue[j].status = "CANCELLED" =>
            /\ email_send_queue'[j].status = "CANCELLED"
            /\ invoked'[j] = invoked[j]]_vars

\* C24: a valid enqueue request creates exactly one job, PENDING with
\* attempts 0, and returns its queue_id; scheduled_for is the supplied value,
\* or now + send_delay_days days when none is supplied.
C24_EnqueueCreatesOne ==
    [][\A req \in Requests :
         (RequireApiKey(req.auth_header) /\ IsValid(req) /\ SendEmail(req)) =>
            LET j == api_response'.queue_id IN
            /\ api_response'.status = 201
            /\ DOMAIN email_send_queue' = Rows \cup {j}
            /\ j \notin Rows
            /\ \A i \in Rows : email_send_queue'[i] = email_send_queue[i]
            /\ email_send_queue'[j].status = "PENDING"
            /\ email_send_queue'[j].attempts = 0
            /\ email_send_queue'[j].scheduled_for =
                  IF req.scheduled_for # NULL THEN req.scheduled_for
                  ELSE IF req.send_delay_days = NULL THEN now
                  ELSE now + req.send_delay_days * TicksPerDay]_vars

\* C24 witness: a job enqueued with a supplied scheduled_for and a job enqueued
\* with a delay of one day and no scheduled_for both exist.
C24_Witness ==
    /\ api_response.kind = "send_email"
    /\ api_response.status = 201
    /\ \E i, j \in Rows :
          /\ email_send_queue[i].scheduled_for = MaxTime + 1
          /\ email_send_queue[j].scheduled_for >= TicksPerDay

\* C25: when the lead's active assignment points to an identity that is no
\* longer active and the tenant has another active identity, get_or_assign
\* marks the old assignment inactive, creates a new active assignment with
\* email_count = 1 bound to an active identity and returns that identity.
C25_ReassignsToActive ==
    [][\A w \in Workers :
         LET l == email[w].row.lead_id
             t == email[w].row.client_id
         IN  (/\ pc[w] = "next_token"
              /\ ActiveAssignments(l, t) = {}
              /\ \E i \in DOMAIN assignments :
                    /\ assignments[i].lead_id = l
                    /\ assignments[i].client_id = t
                    /\ assignments[i].status = "inactive"
              /\ ActiveTokens(t) # {}
              /\ AssignNewMailbox(w))
             => /\ Len(assignments') = Len(assignments) + 1
                /\ assignments'[Len(assignments')].lead_id = l
                /\ assignments'[Len(assignments')].status = "active"
                /\ assignments'[Len(assignments')].email_count = 1
                /\ assignments'[Len(assignments')].assigned_email \in ActiveTokens(t)
                /\ gmail_token'[w] = assignments'[Len(assignments')].assigned_email]_vars

\* C26: for a tenant with no active mailbox, each dispatcher cycle over a due
\* job adds 1 to attempts and stores last_error without invoking the
\* transport, and the job is FAILED once attempts reaches max_attempts: the
\* cycle's claim leaves attempts as they are, its failure adds exactly 1.
C26_NoIdentityCountsAsFailure ==
    [][\A w \in Workers :
         LET j == email[w].id
             old == email_send_queue[j]
             new == email_send_queue'[j]
         IN  (/\ j \in Rows
              /\ ActiveTokens(email[w].row.client_id) = {})
             => /\ Claim(w) => /\ new.attempts = old.attempts
                               /\ new.last_error = old.last_error
                /\ (pc[w] = "next_token" /\ AssignNewMailbox(w)) =>
                      /\ new.attempts = old.attempts + 1
                      /\ new.last_error # ""
                      /\ new.status = IF new.attempts >= new.max_attempts
                                       THEN "FAILED" ELSE "PENDING"
                /\ (Claim(w) \/ LookupAssignment(w) \/ AssignNewMailbox(w)) =>
                      invoked' = invoked]_vars

\* C27: on a permanent transport error (authorization revoked) the sending
\* identity is marked revoked and the job is failed at once, whatever
\* attempts it has left.
C27_PermanentErrorFailsAtOnce ==
    [][\A w \in Workers :
         SendRejected(w) =>
            /\ gmail_tokens'[gmail_token[w]].status = "revoked"
            /\ email_send_queue'[email[w].id].status = "FAILED"]_vars

\* C28: the daily reset the scheduler runs at UTC midnight sets
\* daily_send_count to 0 for every active mailbox and leaves the counts of
\* the others as they are.
C28_MidnightResetsMailboxes ==
    [][ResetDailyLimits =>
         \A m \in Mailboxes :
            gmail_tokens'[m].daily_send_count =
               IF gmail_tokens[m].status = "active" THEN 0
               ELSE gmail_tokens[m].daily_send_count]_vars

\* C29: a job claimed (set to SENDING) by a dispatcher process that died
\* before finishing is never selected by a later cycle, and so the transport
\* never accepts it a second time.
C29_CrashedNeverResent ==
    [][\A j \in crashed :
         /\ delivered'[j] <= 1
         /\ \A w \in Workers :
               Fetch(w) => \A i \in DOMAIN batch'[w] : batch'[w][i].id # j]_vars

\* the message with id x, in whichever mailbox it is
MessagesWithId(x) ==
    { history[m][k] : <<m, k>> \in
        { p \in Mailboxes \X (1..MaxMessages) :
            p[2] <= Len(history[p[1]]) /\ history[p[1]][p[2]].id = x } }

\* C30: a REPLY event is appended only for a new message that is in a thread
\* with one of the tenant's SENT events and is not from the tenant's own
\* sending identity; a message sent by our own mailbox never produces a REPLY
\* event and never makes the lead REPLIED.
C30_RepliesNotFromSelf ==
    /\ \A i \in DOMAIN email_events :
          email_events[i].event_type = "REPLY" =>
             /\ \A msg \in MessagesWithId(email_events[i].message_id) :
                   ~msg.from_self
             /\ SentInThread(email_events,
                             [threadId |-> email_events[i].thread_id],
                             email_events[i].client_id) # {}
    /\ \A l \in Leads :
          leads[l].sequence_status = "REPLIED" =>
             \E i \in DOMAIN email_events :
                /\ email_events[i].event_type = "REPLY"
                /\ email_events[i].lead_id = l
                /\ \A msg \in MessagesWithId(email_events[i].message_id) :
                      ~msg.from_self

\* C31: an enqueue request whose Authorization header is not exactly
\* "Bearer <API key>" is answered with 401 and leaves the send queue as it was.
C31_UnauthorizedCreatesNothing ==
    [][\A req \in Requests :
         (req.auth_header # <<"Bearer", ExpectedKey>> /\ SendEmail(req)) =>
            /\ api_response'.status = 401
            /\ email_send_queue' = email_send_queue]_vars

\* C31 witness: a request was rejected with 401 while the queue holds a job
\* that an authorized request created before.
C31_Witness ==
    /\ api_response.kind = "send_email"
    /\ api_response.status = 401
    /\ Rows # {}

C33_OnlyDueJobsDispatched ==
    [][/\ \A w \in Workers :
            Fetch(w) =>
               /\ Len(batch'[w]) <= BatchLimit
               /\ \A i \in DOMAIN batch'[w] :
                     /\ email_send_queue[batch'[w][i].id].status = "PENDING"
                     /\ email_send_queue[batch'[w][i].id].scheduled_for <= now
               /\ \A a, b \in DOMAIN batch'[w] :
                     a < b => batch'[w][a].row.scheduled_for
                                 <= batch'[w][b].row.scheduled_for
       /\ \A j \in Jobs :
            invoked'[j] > invoked[j] =>
               email_send_queue[j].scheduled_for <= now]_vars

\* the sum of f over the indices in S
RECURSIVE SumOver(_, _)
SumOver(f, S) ==
    IF S = {} THEN 0
    ELSE LET x == CHOOSE y \in S : TRUE IN f[x] + SumOver(f, S \ {x})

\* email_count summed over the assignments of lead l with tenant t
EmailCount(l, t) ==
    SumOver([i \in DOMAIN assignments |-> assignments[i].email_count],
            {i \in DOMAIN assignments : /\ assignments[i].lead_id = l
                                        /\ assignments[i].client_id = t})

\* messages the transport has accepted for the jobs of lead l with tenant t
EmailsSent(l, t) ==
    SumOver(delivered, {j \in Rows : /\ email_send_queue[j].lead_id = l
                                     /\ email_send_queue[j].client_id = t})

\* C34: whenever no dispatch is in progress, the email_count of a lead's
\* assignments equals the number of emails the transport accepted for that
\* lead: failed dispatch attempts are not counted.
C34_EmailCountIsSent ==
    (\A w \in Workers : pc[w] \notin Claimed) =>
       \A l \in Leads, t \in Tenants : EmailCount(l, t) = EmailsSent(l, t)

\* C35: a step in which the transport accepts a job's message leaves the job
\* SENT, and the transport is never invoked again for a job it has accepted,
\* also when a bookkeeping step after the send raises.
C35_DeliveredAtMostOnce ==
    [][\A j \in Jobs :
         /\ delivered'[j] > delivered[j] => email_send_queue'[j].status = "SENT"
         /\ delivered[j] >= 1 => invoked'[j] = invoked[j]]_vars

\* C36: a due PENDING job of a tenant that is below its daily limit is
\* eventually passed to the transport (or stops being PENDING, or its tenant
\* runs out of capacity), whatever skipped jobs of other tenants are queued
\* before it.
C36_NoStarvation ==
    \A j \in Jobs :
       (/\ j \in Rows
        /\ email_send_queue[j].status = "PENDING"
        /\ email_send_queue[j].scheduled_for <= now
        /\ CheckClientDailyLimit(email_send_queue[j].client_id))
       ~> (/\ j \in Rows
           /\ \/ invoked[j] >= 1
              \/ email_send_queue[j].status # "PENDING"
              \/ ~CheckClientDailyLimit(email_send_queue[j].client_id))

\* C37: while cycles keep running and no process dies, a due PENDING job
\* whose tenant is below its daily limit eventually becomes SENT or FAILED
\* (unless its tenant runs out of capacity or a retry moves it into the
\* future first), and a job that is SENDING does not stay SENDING.
C37_EveryJobTerminates ==
    \A j \in Jobs :
       /\ (/\ j \in Rows
           /\ email_send_queue[j].status = "PENDING"
           /\ email_send_queue[j].scheduled_for <= now
           /\ CheckClientDailyLimit(email_send_queue[j].client_id))
          ~> (/\ j \in Rows
              /\ \/ email_send_queue[j].status \in {"SENT", "FAILED"}
                 \/ email_send_queue[j].scheduled_for > now
                 \/ ~CheckClientDailyLimit(email_send_queue[j].client_id))
       /\ (j \in Rows /\ email_send_queue[j].status = "SENDING")
          ~> (j \in Rows /\ email_send_queue[j].status # "SENDING")

\* C38: send_single_email on a job that is not PENDING returns an error and
\* changes nothing, and its save changes no job's status, attempts or send
\* result, whatever a dispatcher cycle does in between.
C38_ManualOnlyReschedules ==
    [][/\ \A j \in Rows :
            (email_send_queue[j].status # "PENDING" /\ SendSingleEmailGet(j)) =>
               /\ manual_result'.kind = "error"
               /\ email_send_queue' = email_send_queue
       /\ SendSingleEmailSave =>
            \A j \in Rows :
               /\ email_send_queue'[j].status = email_send_queue[j].status
               /\ email_send_queue'[j].attempts = email_send_queue[j].attempts
               /\ email_send_queue'[j].last_error = email_send_queue[j].last_error
               /\ email_send_queue'[j].sent_at = email_send_queue[j].sent_at
               /\ email_send_queue'[j].sent_from_email
                    = email_send_queue[j].sent_from_email]_vars

\* C39: a step sets a tenant's emails_sent_today back to 0 only when the
\* tenant's last_reset_date is before today, and it then sets last_reset_date
\* to today: a tenant already reset today keeps its count when
\* reset_daily_limits or check_client_daily_limit runs again.
C39_ResetOncePerDay ==
    [][\A t \in Tenants :
         (clients[t].emails_sent_today > 0 /\ clients'[t].emails_sent_today = 0) =>
            /\ clients[t].last_reset_date < today
            /\ clients'[t].last_reset_date = today]_vars

\* the mailbox messages for which lead l has a REPLY event
RepliedMessages(l) ==
    { email_events[i].message_id : i \in
        { k \in DOMAIN email_events : /\ email_events[k].event_type = "REPLY"
                                      /\ email_events[k].lead_id = l } }

\* C40: no two REPLY events are for the same mailbox message, and a lead's
\* emails_replied is at most the number of messages that replied to it,
\* however check_for_replies runs overlap or abort.
C40_ReplyCountedOnce ==
    /\ \A i, k \in DOMAIN email_events :
          (/\ email_events[i].event_type = "REPLY"
           /\ email_events[k].event_type = "REPLY"
           /\ email_events[i].message_id = email_events[k].message_id) => i = k
    /\ \A l \in Leads :
          leads[l].emails_replied <= Cardinality(RepliedMessages(l))

====
